---- MODULE Spec2Model ----
(***************************************************************************)
(* Model of the protocol client layer of gemini-portal                     *)
(* (src/geminiportal/protocols/*, handlers/base.py, utils.py, app.py).     *)
(*                                                                         *)
(* One proxied request is followed from the construction of the request    *)
(* object to the end of the HTTP body stream.  Bytes and characters are    *)
(* one-character strings; CR, LF, SP and TAB are named tokens.             *)
(***************************************************************************)
EXTENDS Integers, Sequences, FiniteSets, TLC

CR == "CR"
LF == "LF"
SP == "SP"
TAB == "TAB"

Whitespace == {CR, LF, SP, TAB}

(* ------------------------------ bounds -------------------------------- *)

\* longest body the modelled server sends after the header
MaxBodyLen == 5

\* most calls of close() a holder of the response makes
MaxCloseCalls == 3

\* most characters of an address after the slash that ends its authority
MaxRestLen == 4

\* most characters of a search typed into the input box
MaxQueryLen == 1

\* most lines of a gemtext document
MaxLines == 3

\* the ports 0..MaxPort are tried against the port test
MaxPort == 8100

\* most characters of a base address after the slash that ends its authority
MaxBaseLen == 3

\* most characters of a reference that is joined against a base
MaxRelLen == 3

\* most bytes of a text that is decoded
MaxDataLen == 3

\* longest header line given to the header parsers
MaxHeaderLen == 4

\* steps of the clock in one run of the favicon cache
MaxTicks == 3

(* ------------------------- program constants -------------------------- *)

\* protocols/base.py: CHUNK_SIZE = 2**14, scaled down
CHUNK_SIZE == 2

\* protocols/base.py: MAX_BODY_SIZE = 2**20, scaled down (still > CHUNK_SIZE)
MAX_BODY_SIZE == 3

(* ------------------------- sequence helpers --------------------------- *)

Min(a, b) == IF a <= b THEN a ELSE b

\* s[:n]
Take(s, n) == SubSeq(s, 1, Min(n, Len(s)))

\* s[n:]
Drop(s, n) == SubSeq(s, n + 1, Len(s))

RECURSIVE Flatten(_)
Flatten(chunks) ==
    IF chunks = <<>> THEN <<>> ELSE Head(chunks) \o Flatten(Tail(chunks))

\* index of the first occurrence of c in s, 0 when there is none
IndexOf(s, c) ==
    IF \E i \in 1..Len(s) : s[i] = c
    THEN CHOOSE i \in 1..Len(s) : s[i] = c /\ \A j \in 1..(i - 1) : s[j] # c
    ELSE 0

(* --------------------------- access policy ---------------------------- *)

MozzUs == <<"m", "o", "z", "z", ".", "u", "s">>

VgerCloud == <<"v", "g", "e", "r", ".", "c", "l", "o", "u", "d">>

WarpEngineerSpace ==
    <<"w", "a", "r", "p", "e", "n", "g", "i", "n", "e", "e", "r", ".",
      "s", "p", "a", "c", "e">>

MichaelNordmeyerCom ==
    <<"m", "i", "c", "h", "a", "e", "l", "n", "o", "r", "d", "m", "e", "y",
      "e", "r", ".", "c", "o", "m">>

\* protocols/base.py BLOCKED_HOSTS
BLOCKED_HOSTS == {VgerCloud, WarpEngineerSpace, MichaelNordmeyerCom}

\* protocols/__init__.py BLOCKED_HOSTS
INIT_BLOCKED_HOSTS == {VgerCloud, WarpEngineerSpace}

\* protocols/base.py ALLOWED_PORTS
ALLOWED_PORTS ==
    {70, 77, 79, 300, 301, 3000, 3333, 1900, 8070}
        \cup (1960..2020) \cup (7000..7099)

\* protocols/__init__.py ALLOWED_PORTS
INIT_ALLOWED_PORTS == {79, 7070, 300, 301, 3000, 3333} \cup (1960..2020)

\* re.I over the letters the model's hosts use
Lower(c) ==
    CASE c = "V" -> "v"
      [] c = "G" -> "g"
      [] c = "C" -> "c"
      [] c = "D" -> "d"
      [] c = "E" -> "e"
      [] c = "R" -> "r"
      [] c = "L" -> "l"
      [] c = "O" -> "o"
      [] c = "U" -> "u"
      [] OTHER -> c

\* one atom of the pattern built from a blocked host: the host is put in
\* the regular expression unescaped, so its "." is the any-character atom
AtomMatches(p, c) == IF p = "." THEN c # LF ELSE Lower(p) = Lower(c)

CoreMatches(pat, s) ==
    /\ Len(pat) = Len(s)
    /\ \A i \in 1..Len(pat) : AtomMatches(pat[i], s[i])

\* re.compile(rf"(?:.+\.)?{host}\.?$", flags=re.I).match(s):
\* s = prefix \o core \o tail, prefix empty or (any non-empty run, then a
\* literal dot), tail an optional dot (and "$" also matches before one
\* final newline)
BlockedPatternMatches(pat, s) ==
    \E i \in 0..Len(s), j \in 0..Len(s) :
        /\ i <= j
        /\ \/ i = 0
           \/ i >= 2 /\ s[i] = "." /\ \A k \in 1..(i - 1) : s[k] # LF
        /\ CoreMatches(pat, SubSeq(s, i + 1, j))
        /\ Drop(s, j) \in {<<>>, <<".">>, <<LF>>, <<".", LF>>}

\* mutant of Clean: the port test is forgotten
Clean_NoPortTest(h, p) ==
    ~ \E pat \in BLOCKED_HOSTS : BlockedPatternMatches(pat, h)

\* BaseRequest.clean: TRUE when the request passes, FALSE when it raises
Clean(h, p) ==
    /\ ~ \E pat \in BLOCKED_HOSTS : BlockedPatternMatches(pat, h)
    /\ p \in ALLOWED_PORTS

\* protocols/__init__.py validate_url: TRUE when it returns, FALSE when it raises
ValidateUrl(h, p) ==
    /\ ~ \E pat \in INIT_BLOCKED_HOSTS : BlockedPatternMatches(pat, h)
    /\ p \in INIT_ALLOWED_PORTS

\* urls.py PROXY_SCHEMES
PROXY_SCHEMES ==
    {"gemini", "spartan", "text", "finger", "nex", "gopher", "gophers"}

\* urls.py URLReference.DEFAULT_PORTS, the supported schemes
DEFAULT_PORTS ==
    [s \in PROXY_SCHEMES |->
        CASE s = "gemini" -> 1965
          [] s = "text" -> 1961
          [] s = "spartan" -> 300
          [] s = "finger" -> 79
          [] s = "nex" -> 1900
          [] OTHER -> 70]

\* the schemes build_proxy_request dispatches on; any other raises
DispatchedSchemes == {"spartan", "text", "finger", "gemini"}

\* build_proxy_request: TRUE when a request object is returned
BuildProxyRequestOk(s, h, p) ==
    /\ ValidateUrl(h, p)
    /\ s \in DispatchedSchemes
    /\ Clean(h, p)

(* --------------------------- header parsing --------------------------- *)

RECURSIVE LStrip(_)
LStrip(s) ==
    IF s # <<>> /\ Head(s) \in Whitespace THEN LStrip(Tail(s)) ELSE s

RECURSIVE RStrip(_)
RStrip(s) ==
    IF s # <<>> /\ s[Len(s)] \in Whitespace
    THEN RStrip(SubSeq(s, 1, Len(s) - 1))
    ELSE s

\* str.strip()
Strip(s) == RStrip(LStrip(s))

\* length of the leading run of non-whitespace characters
RECURSIVE WordLen(_)
WordLen(s) ==
    IF s = <<>> \/ Head(s) \in Whitespace THEN 0 ELSE 1 + WordLen(Tail(s))

\* str.split(maxsplit=1) of an already stripped string: 0, 1 or 2 parts
SplitOnce(s) ==
    IF s = <<>> THEN <<>>
    ELSE IF WordLen(s) = Len(s) THEN <<s>>
    ELSE <<Take(s, WordLen(s)), LStrip(Drop(s, WordLen(s)))>>

\* BaseRequest.parse_response_header: ok = FALSE when the tuple unpacking
\* of an empty split raises ValueError
parse_response_header(raw_header) ==
    LET parts == SplitOnce(Strip(raw_header)) IN
    IF Len(parts) = 1 THEN [ok |-> TRUE, status |-> parts[1], meta |-> <<>>]
    ELSE IF Len(parts) = 2
         THEN [ok |-> TRUE, status |-> parts[1], meta |-> parts[2]]
         ELSE [ok |-> FALSE, status |-> <<>>, meta |-> <<>>]

\* BaseResponse.parse_meta, the MIME type: the text before the first ";"
parse_meta(meta) ==
    LET i == IndexOf(meta, ";") IN
    Strip(IF i = 0 THEN meta ELSE Take(meta, i - 1))

Digits == {"0", "1", "2", "3", "4", "5", "6", "7", "8", "9"}

\* mutant of IntParses: a length field has to be an unsigned number
IntParses_Unsigned(s) ==
    LET t == Strip(s)
    IN  t # <<>> /\ \A i \in 1..Len(t) : t[i] \in Digits

\* whether int(s) returns (an optional sign and at least one digit, with
\* surrounding whitespace ignored) or raises ValueError
IntParses(s) ==
    LET t == Strip(s)
        u == IF t # <<>> /\ Head(t) \in {"+", "-"} THEN Tail(t) ELSE t
    IN  u # <<>> /\ \A i \in 1..Len(u) : u[i] \in Digits

\* mutant of ReadLine: the line is cut before its LF, which stays buffered
ReadLine_KeepsLF(buf) ==
    IF IndexOf(buf, LF) # 0 THEN Take(buf, IndexOf(buf, LF) - 1) ELSE buf

\* StreamReader.readline on the buffered bytes: the line up to and
\* including the first LF, or everything when the stream ended without one
ReadLine(buf) ==
    IF IndexOf(buf, LF) # 0 THEN Take(buf, IndexOf(buf, LF)) ELSE buf

(* MIME types are abbreviated to one letter:                               *)
(*   "g" text/gemini, "t" text/plain, "i" image/*, "a" audio/*,            *)
(*   "n" application/nex, "m" application/gopher-menu,                     *)
(*   "o" application/octet-stream                                          *)
TemplateMimes == {"i", "a", "t", "g", "n", "m"}

\* handlers/__init__.py get_handler_class, with the raw_mode test of
\* render_from_handler
GetHandlerClass(raw_mode, mimetype) ==
    IF raw_mode THEN "StreamHandler"
    ELSE IF mimetype # <<>> /\ Head(mimetype) \in TemplateMimes
         THEN "TemplateHandler"
         ELSE "StreamHandler"

(* ------------------------------ inputs -------------------------------- *)

\* a subdomain of a blocked host, written with the trailing dot
SubVgerCloud == <<"a", ".">> \o VgerCloud \o <<".">>

Hosts == {MozzUs, VgerCloud, SubVgerCloud}

\* a port outside every allowed set
SshPort == 22

PortsOf(s) == {DEFAULT_PORTS[s], SshPort}

\* header lines of the status-line protocols (gemini, text, spartan)
StatusHeaders ==
    { <<"2", "0", SP, "g", CR, LF>>,
      <<"2", "0", SP, "o", LF>>,
      <<"2", "0", SP, "g", ";", "CHARSET", "=", "L", LF>>,
      <<"2", SP, "g", LF>>,
      <<"1", "0", SP, "q", LF>>,
      <<"3", "0", SP, "/", LF>>,
      <<"3", "0", SP, "gemini", ":", "/", "/", "mozz.us", ":", "x", "/", LF>>,
      <<"3", LF>>,
      <<"4", "0", LF>>,
      <<"6", "0", LF>>,
      <<"9", LF>>,
      <<"2", "0">>,
      <<>> }

\* header lines of gopher+
PlusHeaders ==
    { <<"+", "5", CR, LF>>,
      <<"+", "2", CR, LF>>,
      <<"+", "-", "1", CR, LF>>,
      <<"+", "-", "2", CR, LF>>,
      <<"-", "-", "1", CR, LF, "2", "m", CR, LF>>,
      <<"-", "2", SP, "m", CR, LF>>,
      <<"-", "-", "1", LF>>,
      <<"x", LF>>,
      <<>> }

\* what a server of a headerless protocol may send first
PlainPrefixes == { <<>>, <<"2", "0", SP, "g", LF>> }

BodyCycle == <<"a", LF, "b", "c", SP, "d">>

BodyByte(i) == BodyCycle[((i - 1) % Len(BodyCycle)) + 1]

Bodies == { [i \in 1..n |-> BodyByte(i)] : n \in 0..MaxBodyLen }

HeaderBearing(s, p) ==
    s \in {"gemini", "text", "spartan"} \/ (s \in {"gopher", "gophers"} /\ p)

PrefixesOf(s, p) ==
    IF s \in {"gemini", "text", "spartan"} THEN StatusHeaders
    ELSE IF p THEN PlusHeaders
    ELSE PlainPrefixes

\* the request options of app.proxy that the core reads
OptionsOf(s) ==
    IF s = "gemini"
    THEN [raw : BOOLEAN, crt : BOOLEAN, raw_crt : BOOLEAN]
    ELSE [raw : BOOLEAN, crt : {FALSE}, raw_crt : {FALSE}]

\* URLReference.guess_mimetype of the address, abbreviated; <<>> is None
UrlMimesOf(s) ==
    IF s = "nex" THEN {<<"o">>, <<>>}
    ELSE IF s \in {"gopher", "gophers"} THEN {<<"m">>, <<>>}
    ELSE {<<>>}

TlsScheme(s) == s \in {"gemini", "gophers"}

(* ------------------------------- state -------------------------------- *)

VARIABLES
    scheme,      \* url.scheme of the request
    plus,        \* whether url.gopher_plus_string is non-empty
    host,        \* url.conn_info[0]
    port,        \* url.conn_info[1]
    options,     \* raw / crt / raw_crt of the HTTP request
    urlMime,     \* url.guess_mimetype()
    wire,        \* every byte the server sends on the connection
    pc,          \* where the task handling the request is
    exc,         \* the exception that left the core, "" when none
    conn,        \* "none", "open", "closed" (close()), "peer_closed", "lost"
    closeCalls,  \* calls of BaseResponse.close
    attempts,    \* calls of asyncio.open_connection (lookup and connect)
    opens,       \* connections established
    writes,      \* wire requests written
    rcvd,        \* bytes of wire that reached the StreamReader
    eof,         \* whether the end of the stream reached the StreamReader
    pos,         \* bytes the task consumed from the StreamReader
    rawHeader,   \* raw_header of GopherRequest.fetch
    response,    \* the response object, exists = FALSE before it is built
    ctx,         \* who awaits get_body: "template" or "crt"
    partial,     \* ProxyResponseSizeError.partial
    body,        \* the value get_body returned
    result,      \* what build_proxy_response returned
    iter,        \* the async generators of the HTTP body
    out,         \* the chunks the HTTP body iterator yielded
    received,    \* CloseNotifyState.received
    hooked,      \* whether context._msg_callback is installed
    seenAlert,   \* history: a CLOSE_NOTIFY alert was read on the connection
    raisedAt,    \* history: where the task was when an exception was raised
    url,         \* the string given to URLReference(url)
    ref,         \* the URLReference built from url
    req,         \* the request bytes built from ref
    canon,       \* ref.get_url()
    ref2,        \* URLReference(canon)
    upc,         \* where the address computation is, "off" when there is none
    rel,         \* the reference given to ref.join(rel)
    val,         \* what a method called on ref returned
    err,         \* the exception a method called on ref raised, "" for none
    data,        \* the bytes given to smart_decode
    declared,    \* the charset given to smart_decode, "" for None
    autodetect,  \* what chardet.detect(data) returns
    db,          \* the shelve file of FaviconCache: key -> (ttl, value)
    tasks,       \* FaviconCache.tasks: key -> the task stored under it
    jobs,        \* the _update tasks of each key: running, finished, the last end
    clock,       \* time.time()
    ret,         \* the last call of FaviconCache.check and what it returned
    text,        \* self.text.splitlines() of the gemtext handler
    lineno,      \* lines of text the loop of get_body has handled
    sections,    \* GeminiFlowedHandler.sections, with the lines in each
    buffer,      \* GeminiFlowedHandler.buffer, as line numbers
    preformat_mode,  \* GeminiFlowedHandler.preformat_mode
    list_mode,   \* GeminiFlowedHandler.list_mode
    quote_mode,  \* GeminiFlowedHandler.quote_mode
    fpc          \* where get_body is: "off", "lines", "done" or "raised"

vars ==
    <<scheme, plus, host, port, options, urlMime, wire, pc, exc, conn,
      closeCalls, attempts, opens, writes, rcvd, eof, pos, rawHeader,
      response, ctx, partial, body, result, iter, out, received, hooked,
      seenAlert, raisedAt, url, ref, req, canon, ref2, upc, rel, val, err,
      data, declared, autodetect, db, tasks, jobs, clock, ret, text, lineno,
      sections, buffer, preformat_mode, list_mode, quote_mode, fpc>>

\* the favicon cache
cacheVars == <<db, tasks, jobs, clock, ret>>

\* the gemtext converter
flowVars ==
    <<text, lineno, sections, buffer, preformat_mode, list_mode, quote_mode,
      fpc>>

\* everything but the favicon cache
portalVars ==
    <<scheme, plus, host, port, options, urlMime, wire, pc, exc, conn,
      closeCalls, attempts, opens, writes, rcvd, eof, pos, rawHeader,
      response, ctx, partial, body, result, iter, out, received, hooked,
      seenAlert, raisedAt, url, ref, req, canon, ref2, upc, rel, val, err,
      data, declared, autodetect, flowVars>>

\* the arguments of smart_decode
decodeVars == <<data, declared, autodetect>>

\* the address computation, which no step of a request touches
urlVars ==
    <<url, ref, req, canon, ref2, upc, rel, val, err, decodeVars, cacheVars,
      flowVars>>

inputVars == <<scheme, plus, host, port, options, urlMime, wire, urlVars>>

NoResponse ==
    [exists |-> FALSE, status |-> <<>>, meta |-> <<>>, mimetype |-> <<>>,
     charset |-> <<>>, bodyStart |-> 0]

NoIter == [outer |-> "none", inner |-> "none"]

\* chardet.detect found nothing: {"encoding": None, "confidence": 0.0}
NoDetection == [encoding |-> "", confidence |-> 0]

\* smart_decode is not called
NoDecode ==
    /\ data = <<>>
    /\ declared = ""
    /\ autodetect = NoDetection

\* a GeminiFlowedHandler whose get_body is not called
NoFlow ==
    /\ text = <<>>
    /\ lineno = 0
    /\ sections = <<>>
    /\ buffer = <<>>
    /\ preformat_mode = FALSE
    /\ list_mode = FALSE
    /\ quote_mode = FALSE
    /\ fpc = "off"

\* a FaviconCache that was never used
NoCache ==
    /\ db = <<>>
    /\ tasks = <<>>
    /\ jobs = <<>>
    /\ clock = 0
    /\ ret = <<>>

\* no URLReference: the fields of one, all empty
NoRef ==
    [exists |-> FALSE, scheme |-> "", hostname |-> <<>>, port |-> 0,
     path |-> <<>>, query |-> <<>>, fragment |-> <<>>,
     finger_request |-> <<>>, gopher_item_type |-> <<>>,
     gopher_selector |-> <<>>, gopher_search |-> <<>>,
     gopher_plus_string |-> <<>>]

Init ==
    /\ scheme \in PROXY_SCHEMES
    /\ plus \in (IF scheme \in {"gopher", "gophers"} THEN BOOLEAN ELSE {FALSE})
    /\ host \in Hosts
    /\ port \in PortsOf(scheme)
    /\ options \in OptionsOf(scheme)
    /\ urlMime \in UrlMimesOf(scheme)
    /\ wire \in { h \o b : h \in PrefixesOf(scheme, plus), b \in Bodies }
    /\ pc = "new"
    /\ exc = ""
    /\ conn = "none"
    /\ closeCalls = 0
    /\ attempts = 0
    /\ opens = 0
    /\ writes = 0
    /\ rcvd = 0
    /\ eof = FALSE
    /\ pos = 0
    /\ rawHeader = <<>>
    /\ response = NoResponse
    /\ ctx = ""
    /\ partial = <<>>
    /\ body = <<>>
    /\ result = ""
    /\ iter = NoIter
    /\ out = <<>>
    /\ received = FALSE
    /\ hooked = FALSE
    /\ seenAlert = FALSE
    /\ raisedAt = ""
    /\ url = <<>>
    /\ ref = NoRef
    /\ req = <<>>
    /\ canon = <<>>
    /\ ref2 = NoRef
    /\ upc = "off"
    /\ rel = <<>>
    /\ val = <<>>
    /\ err = ""
    /\ NoDecode
    /\ NoCache
    /\ NoFlow

\* the bytes buffered in the StreamReader and not yet consumed
Buffered == SubSeq(wire, pos + 1, rcvd)

(* ------------------------------ addresses ----------------------------- *)

\* An address is a sequence of characters.  A scheme, a host name, a port
\* number and a %-escape are each written as one character of the model:
\* none of them contains a character the parser splits on.

\* str.split(c, maxsplit=1): the part before the first c, and the part after
Before(s, c) == IF IndexOf(s, c) = 0 THEN s ELSE Take(s, IndexOf(s, c) - 1)

After(s, c) == IF IndexOf(s, c) = 0 THEN <<>> ELSE Drop(s, IndexOf(s, c))

\* position of the k-th c of s, 0 when s holds fewer
NthIndex(s, c, k) ==
    LET at == { i \in 1..Len(s) :
                  s[i] = c /\ Cardinality({ j \in 1..i : s[j] = c }) = k }
    IN  IF at = {} THEN 0 ELSE CHOOSE i \in at : TRUE

\* url.split("/", maxsplit=3): whether there are four sections, and the last
HasSection3(u) == NthIndex(u, "/", 3) # 0

Section3(u) == Drop(u, NthIndex(u, "/", 3))

\* str.lower on a host name
LowerHost(h) == IF h = "MOZZ.US" THEN "mozz.us" ELSE h

\* the port numbers as they are written, int(text)
PortInt ==
    [t \in {"70", "070", "7070", "1965", "23", "0"} |->
        CASE t \in {"70", "070"} -> 70
          [] t = "7070" -> 7070
          [] t = "1965" -> 1965
          [] t = "23" -> 23
          [] OTHER -> 0]

\* str(port) in an f-string
PortStr(n) ==
    CASE n = 70 -> "70" [] n = 7070 -> "7070" [] n = 1965 -> "1965"
      [] n = 1961 -> "1961" [] n = 300 -> "300" [] n = 79 -> "79"
      [] n = 1900 -> "1900" [] n = 23 -> "23" [] OTHER -> "0"

\* DEFAULT_PORTS.get(scheme): 0 stands for None
DefaultPort(s) == IF s \in DOMAIN DEFAULT_PORTS THEN DEFAULT_PORTS[s] ELSE 0

\* urllib.parse.urlsplit: the scheme is what precedes the first ":"
UrlScheme(u) == IF IndexOf(u, ":") = 2 THEN u[1] ELSE ""

AfterScheme(u) == IF UrlScheme(u) # "" THEN Drop(u, 2) ELSE u

\* urlsplit: "//" opens the authority, which ends at the first "/", "?", "#"
HasNetloc(u) == Len(AfterScheme(u)) >= 2 /\ Take(AfterScheme(u), 2) = <<"/", "/">>

NetlocEnd(u) ==
    LET r == AfterScheme(u)
        stops == { i \in 3..Len(r) : r[i] \in {"/", "?", "#"} }
    IN  IF stops = {} THEN Len(r) + 1
        ELSE CHOOSE i \in stops : \A j \in stops : i <= j

UrlNetloc(u) ==
    IF HasNetloc(u) THEN SubSeq(AfterScheme(u), 3, NetlocEnd(u) - 1) ELSE <<>>

AfterNetloc(u) ==
    IF HasNetloc(u) THEN Drop(AfterScheme(u), NetlocEnd(u) - 1)
    ELSE AfterScheme(u)

\* urlsplit: the fragment is cut at the first "#", then the query at "?"
UrlFragment(u) == After(AfterNetloc(u), "#")

UrlQuery(u) == After(Before(AfterNetloc(u), "#"), "?")

UrlPath(u) == Before(Before(AfterNetloc(u), "#"), "?")

\* SplitResult.hostname: what precedes ":" in the authority, lower-cased
UrlHostname(u) ==
    LET h == Before(UrlNetloc(u), ":")
    IN  [i \in 1..Len(h) |-> LowerHost(h[i])]

\* SplitResult.port: the text after ":", which has to be a number
UrlPortText(u) == After(UrlNetloc(u), ":")

UrlPortValid(u) ==
    UrlPortText(u) = <<>>
        \/ (Len(UrlPortText(u)) = 1 /\ UrlPortText(u)[1] \in DOMAIN PortInt)

UrlPort(u) == IF UrlPortText(u) = <<>> THEN 0 ELSE PortInt[UrlPortText(u)[1]]

\* URLReference.__init__: item type and selector of a gopher address
GopherItemType(u) ==
    IF UrlScheme(u) \notin {"gopher", "gophers"} THEN <<>>
    ELSE IF ~HasSection3(u) \/ Section3(u) = <<>> THEN <<"1">>
    ELSE <<Head(Section3(u))>>

RawSelector(u) ==
    IF UrlScheme(u) \notin {"gopher", "gophers"} THEN <<>>
    ELSE IF ~HasSection3(u) \/ Section3(u) = <<>> THEN <<>>
    ELSE Tail(Section3(u))

\* what follows the first %09 of the selector, before it is split again
RawSearch(u) == After(RawSelector(u), "%09")

\* URLReference.__init__: the search string ends at its first %09
GopherSearch(u) == Before(RawSearch(u), "%09")

\* URLReference.__init__: the plus-string is what follows that %09
GopherPlusString(u) == After(RawSearch(u), "%09")

\* URLReference.__init__(url) without a base; ValueError from the port
\* leaves no object
URLReference(u) ==
    IF ~UrlPortValid(u) THEN NoRef
    ELSE
    [exists |-> TRUE,
     scheme |-> UrlScheme(u),
     hostname |-> UrlHostname(u),
     port |-> IF UrlPort(u) # 0 THEN UrlPort(u) ELSE DefaultPort(UrlScheme(u)),
     path |-> IF IndexOf(RawSelector(u), "%09") # 0
              THEN Before(RawSelector(u), "%09")
              ELSE IF UrlPath(u) = <<"/">> THEN <<>> ELSE UrlPath(u),
     query |-> UrlQuery(u),
     fragment |-> UrlFragment(u),
     finger_request |-> IF UrlScheme(u) = "finger" /\ HasSection3(u)
                        THEN Section3(u) ELSE <<>>,
     gopher_item_type |-> GopherItemType(u),
     gopher_selector |-> Before(RawSelector(u), "%09"),
     gopher_search |-> GopherSearch(u),
     gopher_plus_string |-> GopherPlusString(u)]

\* URLReference.netloc
netloc(r) ==
    IF r.port # 0 /\ r.port # DefaultPort(r.scheme)
    THEN (IF r.hostname = <<>> THEN <<"None">> ELSE r.hostname)
             \o <<":", PortStr(r.port)>>
    ELSE r.hostname

\* URLReference.get_finger_url
get_finger_url(r) ==
    <<r.scheme, ":", "/", "/">> \o netloc(r)
        \o (IF r.finger_request # <<>> THEN <<"/">> \o r.finger_request
            ELSE <<>>)

\* URLReference.get_gopher_path
get_gopher_path(r) ==
    LET selector ==
            IF r.gopher_plus_string # <<>>
            THEN r.gopher_selector \o <<"%09">> \o r.gopher_search
                     \o <<"%09">> \o r.gopher_plus_string
            ELSE IF r.gopher_search # <<>>
            THEN r.gopher_selector \o <<"%09">> \o r.gopher_search
            ELSE r.gopher_selector
    IN  IF selector # <<>> /\ selector # <<"/">>
        THEN <<"/">> \o r.gopher_item_type \o selector
        ELSE IF r.gopher_item_type # <<"1">>
        THEN <<"/">> \o r.gopher_item_type
        ELSE <<>>

\* URLReference.get_gopher_url
get_gopher_url(r) == <<r.scheme, ":", "/", "/">> \o netloc(r) \o get_gopher_path(r)

\* urllib.parse.urlunparse of (scheme, netloc, path, "", query, fragment)
\* for a scheme of uses_netloc
urlunparse(s, n, pth, q, f) ==
    LET withNetloc ==
            IF n # <<>> \/ (s # "" /\ Take(pth, 2) # <<"/", "/">>)
            THEN <<"/", "/">> \o n
                     \o (IF pth # <<>> /\ Head(pth) # "/" THEN <<"/">> ELSE <<>>)
                     \o pth
            ELSE pth
        withScheme == IF s # "" THEN <<s, ":">> \o withNetloc ELSE withNetloc
        withQuery == IF q # <<>> THEN withScheme \o <<"?">> \o q ELSE withScheme
    IN  IF f # <<>> THEN withQuery \o <<"#">> \o f ELSE withQuery

\* urllib.parse.quote with safe="/?#$+-!=&@.,|", one character: letters,
\* digits and the safe characters stay, everything else is escaped
QuoteGopherChar(c) ==
    CASE c = TAB -> "%09"
      [] c = CR -> "%0D"
      [] c = LF -> "%0A"
      [] c = SP -> "%20"
      [] c = "%" -> "%25"
      [] OTHER -> c

\* quote_gopher
quote_gopher(selector) ==
    [i \in 1..Len(selector) |-> QuoteGopherChar(selector[i])]

\* URLReference.get_url()
get_url(r) ==
    IF r.scheme = "finger" THEN get_finger_url(r)
    ELSE IF r.scheme \in {"gopher", "gophers"} THEN get_gopher_url(r)
    ELSE urlunparse(r.scheme, netloc(r), r.path, r.query, r.fragment)

\* mutant of UnquoteChar: the escapes are sent as they are written
UnquoteChar_Identity(c) == c

\* urllib.parse.unquote_to_bytes, one %-escape: the byte it stands for
UnquoteChar(c) ==
    CASE c = "%09" -> TAB
      [] c = "%0D" -> CR
      [] c = "%0A" -> LF
      [] c = "%20" -> SP
      [] c = "%25" -> "%"
      [] OTHER -> c

unquote_to_bytes(s) == [i \in 1..Len(s) |-> UnquoteChar(s[i])]

\* URLReference.get_gopher_request
get_gopher_request(r) ==
    unquote_to_bytes(
        IF r.gopher_plus_string = <<"?">>
        THEN r.gopher_selector \o <<"%09">> \o r.gopher_search
                 \o <<"%09", "!", CR, LF>>
        ELSE IF r.gopher_plus_string # <<>>
        THEN r.gopher_selector \o <<"%09">> \o r.gopher_search
                 \o <<"%09">> \o r.gopher_plus_string \o <<CR, LF>>
        ELSE IF r.gopher_search # <<>>
        THEN r.gopher_selector \o <<"%09">> \o r.gopher_search \o <<CR, LF>>
        ELSE r.gopher_selector \o <<CR, LF>>)

\* URLReference.join(url) of a parsed address: URLReference(url, base)
\* takes the authority of url when it has one, and raises ValueError when
\* the port written there is no number
\* URLReference.conn_info: the exception it raises, "" when it returns
conn_info_err(r) ==
    IF r.port = 0 THEN "ValueError"
    ELSE IF r.hostname = <<>> THEN "ValueError"
    ELSE ""

\* URLReference.conn_info: (hostname, port)
conn_info(r) == <<r.hostname, r.port>>

JoinParses(u) == UrlPortValid(u)

(* ----------------------- request construction ------------------------- *)

\* app.proxy: proxy_request = build_proxy_request(g.url, options)
BuildProxyRequest ==
    /\ pc = "new"
    /\ IF BuildProxyRequestOk(scheme, host, port)
       THEN pc' = "ready" /\ exc' = exc
       ELSE pc' = "rejected" /\ exc' = "ValueError"
    /\ UNCHANGED <<inputVars, conn, closeCalls, attempts, opens, writes,
                   rcvd, eof, pos, rawHeader, response, ctx, partial, body,
                   result, iter, out, received, hooked, seenAlert>>
    /\ raisedAt' = IF exc' # exc THEN pc ELSE raisedAt

\* a request class called directly, as tests/test_protocols.py does:
\* BaseRequest.__init__ runs clean()
NewRequest ==
    /\ pc = "new"
    /\ IF Clean(host, port)
       THEN pc' = "ready" /\ exc' = exc
       ELSE pc' = "rejected" /\ exc' = "ValueError"
    /\ UNCHANGED <<inputVars, conn, closeCalls, attempts, opens, writes,
                   rcvd, eof, pos, rawHeader, response, ctx, partial, body,
                   result, iter, out, received, hooked, seenAlert>>
    /\ raisedAt' = IF exc' # exc THEN pc ELSE raisedAt

(* ------------------------- pieces of the code ------------------------- *)

\* BaseResponse.close: writer.close(), any error swallowed
CloseConn(c) == IF c = "open" THEN "closed" ELSE c

\* Python: CancelledError derives from BaseException, not from Exception
IsException(e) == e # "CancelledError"

\* BaseRequest.open_connection: the connect timeout becomes ProxyError
OpenConnectionExc(e) == IF e = "TimeoutError" THEN "ProxyError" ELSE e

\* mutant of GetResponseExc: a bare "except Exception" in get_response
GetResponseExc_CatchAll(e) ==
    IF e \in {"gaierror", "OSError", "ValueError", "IndexError"}
    THEN "ProxyError" ELSE e

\* BaseRequest.get_response: socket.gaierror and OSError become ProxyError,
\* anything else leaves as it is
GetResponseExc(e) == IF e \in {"gaierror", "OSError"} THEN "ProxyError" ELSE e

\* mutant of GetBodyCloses: close() in a finally clause, also on overflow
GetBodyCloses_Finally(e) == TRUE

\* BaseResponse.get_body: close() in the two except clauses, not on overflow
GetBodyCloses(e) == e = "IncompleteReadError" \/ (e # "" /\ IsException(e))

\* BaseResponse.stream_body: close() in the finally clause, which runs once
\* the generator has entered the try block
StreamBodyCloses(innerState) == innerState \in {"running", "suspended"}

\* mutant of MsgCallback: the direction of the alert is not tested
MsgCallback_AnyDirection(flag, direction, m) ==
    IF m = "CLOSE_NOTIFY" THEN TRUE ELSE flag

\* CloseNotifyState.msg_callback
MsgCallback(flag, direction, m) ==
    IF m = "CLOSE_NOTIFY" /\ direction = "read" THEN TRUE ELSE flag

StartsWith(s, c) == s # <<>> /\ Head(s) = c

\* mutant of GeminiOutcome: no branch for the status "6x"
GeminiOutcome_NoCertBranch(opts, status) ==
    IF opts.raw_crt THEN "raw_crt"
    ELSE IF opts.crt THEN "crt"
    ELSE IF status # <<>> /\ Head(status) = "1" THEN "input"
    ELSE IF status # <<>> /\ Head(status) = "2" THEN "render"
    ELSE IF status # <<>> /\ Head(status) = "3" THEN "redirect"
    ELSE IF status # <<>> /\ Head(status) \in {"4", "5"} THEN "failure"
    ELSE "unhandled"

\* GeminiProxyResponseBuilder.build_proxy_response
GeminiOutcome(opts, status) ==
    IF opts.raw_crt THEN "raw_crt"
    ELSE IF opts.crt THEN "crt"
    ELSE IF StartsWith(status, "1") THEN "input"
    ELSE IF StartsWith(status, "2") THEN "render"
    ELSE IF StartsWith(status, "3") THEN "redirect"
    ELSE IF StartsWith(status, "4") \/ StartsWith(status, "5") THEN "failure"
    ELSE IF StartsWith(status, "6") THEN "cert_required"
    ELSE "unhandled"

\* SpartanProxyResponseBuilder.build_proxy_response
SpartanOutcome(status) ==
    IF StartsWith(status, "2") THEN "render"
    ELSE IF StartsWith(status, "3") THEN "redirect"
    ELSE IF StartsWith(status, "4") \/ StartsWith(status, "5") THEN "failure"
    ELSE "unhandled"

\* TxtProxyResponseBuilder.build_proxy_response
TxtOutcome(status) ==
    IF status = <<"2">> THEN "render"
    ELSE IF status = <<"3">> THEN "redirect"
    ELSE IF status \in {<<"4">>, <<"5">>} THEN "failure"
    ELSE "unhandled"

\* the proxy_response_builder of each response class
BuilderOutcome(s, opts, status) ==
    CASE s = "gemini" -> GeminiOutcome(opts, status)
      [] s = "spartan" -> SpartanOutcome(status)
      [] s = "text" -> TxtOutcome(status)
      [] OTHER -> "render"

\* the mimetype each response class sets in __init__
ResponseMime(s, p, status, meta, guess) ==
    CASE s = "gemini" ->
            IF StartsWith(status, "2") THEN parse_meta(meta) ELSE <<>>
      [] s \in {"text", "spartan"} -> parse_meta(meta)
      [] s = "finger" -> <<"t">>
      [] s = "nex" -> IF guess = <<>> THEN <<"t">> ELSE guess
      [] OTHER ->
            IF p /\ status # <<>> THEN <<"t">>
            ELSE IF guess = <<>> THEN <<"o">> ELSE guess

\* str.split(c): every part
RECURSIVE SplitAll(_, _)
SplitAll(s, c) ==
    IF IndexOf(s, c) = 0 THEN <<s>>
    ELSE <<Before(s, c)>> \o SplitAll(After(s, c), c)

\* str.lower on the name of a parameter
LowerKey(k) == IF k = "CHARSET" THEN "charset" ELSE k

\* BaseResponse.parse_meta: whether a parameter is "charset=..."
IsCharsetParam(param) ==
    LET q == Strip(param)
        k == Before(q, "=")
    IN  IndexOf(q, "=") # 0 /\ [i \in 1..Len(k) |-> LowerKey(k[i])] = <<"charset">>

\* BaseResponse.parse_meta and params.get("charset", default): the value
\* of the last charset parameter after the first ";"
CharsetParam(meta, default) ==
    LET params == SplitAll(After(meta, ";"), ";")
        at == { i \in 1..Len(params) : IsCharsetParam(params[i]) }
    IN  IF at = {} THEN default
        ELSE After(Strip(params[CHOOSE i \in at : \A j \in at : j <= i]), "=")

\* request.options.charset of the requests of the model: none
NoCharsetOverride == <<>>

\* the charset each response class sets in __init__; <<>> is None or ""
ResponseCharset(s, status, meta, override) ==
    CASE s = "finger" -> <<>>
      [] s \in {"gopher", "gophers"} -> <<"UTF-8">>
      [] s = "nex" -> IF override # <<>> THEN override ELSE <<"UTF-8">>
      [] s = "gemini" ->
            IF override # <<>> THEN override
            ELSE IF StartsWith(status, "2") THEN CharsetParam(meta, <<"UTF-8">>)
            ELSE <<"UTF-8">>
      [] OTHER -> CharsetParam(meta, <<"UTF-8">>)

\* a response object built when `at` bytes of the stream were consumed
MakeResponse(status, meta, at) ==
    [exists |-> TRUE, status |-> status, meta |-> meta,
     mimetype |-> ResponseMime(scheme, plus, status, meta, urlMime),
     charset |-> ResponseCharset(scheme, status, meta, NoCharsetOverride),
     bodyStart |-> at]

\* StreamReader.readexactly(n): the n bytes when they are there
ReadExactly(buf, n) == Take(buf, n)

\* StreamReader.read(n): what is buffered, at most n bytes
ReadChunk(buf, n) == Take(buf, Min(n, Len(buf)))

\* mutant of PrependFirst: the partial bytes are not put back
PrependFirst_Dropped(partial_bytes) == <<>>

\* utils.prepend_bytes_to_iterator: the first item it yields
PrependFirst(partial_bytes) == partial_bytes

(* ------------------------------- fetch -------------------------------- *)

\* BaseRequest.get_response -> fetch, up to await open_connection;
\* GeminiRequest.fetch first installs the CloseNotifyState hook
StartFetch ==
    /\ pc = "ready"
    /\ pc' = "connecting"
    /\ attempts' = attempts + 1
    /\ hooked' = (scheme = "gemini")
    /\ received' = FALSE
    /\ UNCHANGED <<inputVars, exc, conn, closeCalls, opens, writes, rcvd,
                   eof, pos, rawHeader, response, ctx, partial, body, result,
                   iter, out, seenAlert, raisedAt>>

\* open_connection returned; the request is written, then await drain()
ConnectOk ==
    /\ pc = "connecting"
    /\ conn' = "open"
    /\ opens' = opens + 1
    /\ writes' = writes + 1
    /\ pc' = "drain"
    /\ UNCHANGED <<inputVars, exc, closeCalls, attempts, rcvd, eof, pos,
                   rawHeader, response, ctx, partial, body, result, iter,
                   out, received, hooked, seenAlert, raisedAt>>

\* mutant of ConnectFail: the connect is tried again after a failure
ConnectFail_Retry ==
    /\ pc = "connecting"
    /\ pc' = "ready"
    /\ UNCHANGED <<inputVars, exc, conn, closeCalls, attempts, opens, writes,
                   rcvd, eof, pos, rawHeader, response, ctx, partial, body,
                   result, iter, out, received, hooked, seenAlert, raisedAt>>

\* open_connection failed: name lookup, refusal or the connect timeout
ConnectFail ==
    /\ pc = "connecting"
    /\ \E e \in {"gaierror", "OSError", "TimeoutError"} :
           exc' = GetResponseExc(OpenConnectionExc(e))
    /\ pc' = "failed"
    /\ UNCHANGED <<inputVars, conn, closeCalls, attempts, opens, writes,
                   rcvd, eof, pos, rawHeader, response, ctx, partial, body,
                   result, iter, out, received, hooked, seenAlert>>
    /\ raisedAt' = IF exc' # exc THEN pc ELSE raisedAt

\* drain() returned: the headerless protocols build the response at once
DrainOk ==
    /\ pc = "drain"
    /\ conn \in {"open", "peer_closed"}
    /\ IF HeaderBearing(scheme, plus)
       THEN pc' = "header" /\ response' = response
       ELSE pc' = "fetched" /\ response' = MakeResponse(<<>>, <<>>, pos)
    /\ UNCHANGED <<inputVars, exc, conn, closeCalls, attempts, opens, writes,
                   rcvd, eof, pos, rawHeader, ctx, partial, body, result,
                   iter, out, received, hooked, seenAlert, raisedAt>>

\* GopherRequest.fetch after the header line(s): int(header[1:]) and the
\* GopherPlusResponse
PlusFinish(raw_header, status, meta, at) ==
    IF IntParses(Tail(raw_header))
    THEN /\ pc' = "fetched"
         /\ exc' = exc
         /\ response' = MakeResponse(status, Strip(meta), at)
    ELSE /\ pc' = "failed"
         /\ exc' = GetResponseExc("ValueError")
         /\ response' = response

\* mutant of PlusHeaderKind: a line that does not start with "+" is taken
\* for an error header
PlusHeaderKind_Lenient(raw_header) ==
    IF raw_header # <<>> /\ Head(raw_header) = "+" THEN "success" ELSE "error"

\* GopherRequest.fetch: the three branches on raw_header[:1]
PlusHeaderKind(raw_header) ==
    IF StartsWith(raw_header, "+") THEN "success"
    ELSE IF StartsWith(raw_header, "-") THEN "error"
    ELSE "invalid"

\* raw_header = await reader.readline() and what follows up to the next await
ReadHeader ==
    /\ pc = "header"
    /\ IndexOf(Buffered, LF) # 0 \/ eof
    /\ LET line == ReadLine(Buffered)
           at == pos + Len(line)
           h == parse_response_header(line)
       IN  /\ pos' = at
           /\ IF scheme \in {"gemini", "text", "spartan"}
              THEN /\ rawHeader' = rawHeader
                   /\ IF h.ok
                      THEN /\ pc' = "fetched"
                           /\ exc' = exc
                           /\ response' = MakeResponse(h.status, h.meta, at)
                      ELSE /\ pc' = "failed"
                           /\ exc' = GetResponseExc("ValueError")
                           /\ response' = response
              ELSE /\ rawHeader' = line
                   /\ IF PlusHeaderKind(line) = "success"
                      THEN PlusFinish(line, <<>>, <<>>, at)
                      ELSE IF PlusHeaderKind(line) = "error"
                      THEN pc' = "header2" /\ exc' = exc /\ response' = response
                      ELSE /\ pc' = "failed"
                           /\ exc' = GetResponseExc("ValueError")
                           /\ response' = response
    /\ UNCHANGED <<inputVars, conn, closeCalls, attempts, opens, writes,
                   rcvd, eof, ctx, partial, body, result, iter, out,
                   received, hooked, seenAlert>>
    /\ raisedAt' = IF exc' # exc THEN pc ELSE raisedAt

\* raw_status_line = await reader.readline() of a gopher+ error
ReadHeader2 ==
    /\ pc = "header2"
    /\ IndexOf(Buffered, LF) # 0 \/ eof
    /\ LET line == ReadLine(Buffered)
           at == pos + Len(line)
       IN  /\ pos' = at
           /\ IF line = <<>>
              THEN /\ pc' = "failed"
                   /\ exc' = GetResponseExc("IndexError")
                   /\ response' = response
              ELSE PlusFinish(rawHeader, <<Head(line)>>, Tail(line), at)
    /\ UNCHANGED <<inputVars, conn, closeCalls, attempts, opens, writes,
                   rcvd, eof, rawHeader, ctx, partial, body, result, iter,
                   out, received, hooked, seenAlert>>
    /\ raisedAt' = IF exc' # exc THEN pc ELSE raisedAt

(* ---------------------- building the HTTP response -------------------- *)

\* app.proxy: await response.build_proxy_response(), up to its first read
BuildProxyResponse ==
    /\ pc = "fetched"
    /\ LET o == BuilderOutcome(scheme, options, response.status) IN
       IF o = "crt"
       THEN pc' = "get_body" /\ ctx' = "crt" /\ result' = result /\ iter' = iter
       ELSE IF o = "render"
       THEN IF GetHandlerClass(options.raw, response.mimetype) = "StreamHandler"
            THEN /\ pc' = "responded"
                 /\ ctx' = ctx
                 /\ result' = "stream"
                 /\ iter' = [outer |-> "none", inner |-> "created"]
            ELSE pc' = "get_body" /\ ctx' = "template" /\ result' = result
                 /\ iter' = iter
       ELSE IF o = "redirect" /\ ~JoinParses(response.meta)
       THEN pc' = "failed" /\ ctx' = ctx /\ result' = result /\ iter' = iter
       ELSE pc' = "responded" /\ ctx' = ctx /\ result' = o /\ iter' = iter
    /\ exc' = IF BuilderOutcome(scheme, options, response.status) = "redirect"
                  /\ ~JoinParses(response.meta)
               THEN "ValueError" ELSE exc
    /\ raisedAt' = IF exc' # exc THEN pc ELSE raisedAt
    /\ UNCHANGED <<inputVars, conn, closeCalls, attempts, opens, writes,
                   rcvd, eof, pos, rawHeader, response, partial, body, out,
                   received, hooked, seenAlert>>

\* BaseResponse.get_body: await reader.readexactly(MAX_BODY_SIZE) returned
\* or raised IncompleteReadError, and what its caller does with that
GetBodyRead ==
    /\ pc = "get_body"
    /\ Len(Buffered) >= MAX_BODY_SIZE \/ eof
    /\ IF Len(Buffered) >= MAX_BODY_SIZE
       THEN /\ partial' = ReadExactly(Buffered, MAX_BODY_SIZE)
            /\ pos' = pos + MAX_BODY_SIZE
            /\ body' = body
            /\ closeCalls' = IF GetBodyCloses("") THEN closeCalls + 1 ELSE closeCalls
            /\ conn' = IF GetBodyCloses("") THEN CloseConn(conn) ELSE conn
            /\ IF ctx = "template"
               THEN \* render_from_handler: StreamHandler.from_partial_response
                    /\ pc' = "responded"
                    /\ exc' = exc
                    /\ result' = "stream"
                    /\ iter' = [outer |-> "created", inner |-> "created"]
               ELSE \* the crt branch does not catch ProxyResponseSizeError
                    /\ pc' = "failed"
                    /\ exc' = "ProxyResponseSizeError"
                    /\ result' = result
                    /\ iter' = iter
       ELSE /\ body' = Buffered
            /\ pos' = rcvd
            /\ partial' = partial
            /\ closeCalls' = IF GetBodyCloses("IncompleteReadError")
                             THEN closeCalls + 1 ELSE closeCalls
            /\ conn' = IF GetBodyCloses("IncompleteReadError")
                       THEN CloseConn(conn) ELSE conn
            /\ pc' = "responded"
            /\ exc' = exc
            /\ result' = IF ctx = "template" THEN "rendered" ELSE "crt_page"
            /\ iter' = iter
    /\ UNCHANGED <<inputVars, attempts, opens, writes, rcvd, eof, rawHeader,
                   response, ctx, out, received, hooked, seenAlert>>
    /\ raisedAt' = IF exc' # exc THEN pc ELSE raisedAt

(* -------------------------- the body stream --------------------------- *)

StreamLive == pc = "responded" /\ result = "stream"

\* the HTTP server asks the body iterator for its next item
ConsumerNext ==
    /\ StreamLive
    /\ IF iter.outer = "created"
       THEN \* prepend_bytes_to_iterator: yield partial_bytes
            /\ out' = Append(out, PrependFirst(partial))
            /\ iter' = [iter EXCEPT !.outer = "suspended"]
            /\ pc' = pc
       ELSE \* stream_body runs to await self.reader.read(CHUNK_SIZE)
            /\ out' = out
            /\ iter' = [outer |-> IF iter.outer = "none" THEN "none"
                                  ELSE "delegating",
                        inner |-> "running"]
            /\ pc' = "stream_read"
    /\ UNCHANGED <<inputVars, exc, conn, closeCalls, attempts, opens, writes,
                   rcvd, eof, pos, rawHeader, response, ctx, partial, body,
                   result, received, hooked, seenAlert, raisedAt>>

\* BaseResponse.stream_body: reader.read(CHUNK_SIZE) returned
StreamRead ==
    /\ pc = "stream_read"
    /\ Buffered # <<>> \/ eof
    /\ IF Buffered # <<>>
       THEN LET chunk == ReadChunk(Buffered, CHUNK_SIZE) IN
            /\ out' = Append(out, chunk)
            /\ pos' = pos + Len(chunk)
            /\ iter' = [iter EXCEPT !.inner = "suspended"]
            /\ pc' = "responded"
            /\ UNCHANGED <<conn, closeCalls>>
       ELSE \* the empty chunk ends the loop; finally: self.close()
            /\ out' = out
            /\ pos' = pos
            /\ closeCalls' = IF StreamBodyCloses(iter.inner)
                             THEN closeCalls + 1 ELSE closeCalls
            /\ conn' = IF StreamBodyCloses(iter.inner)
                       THEN CloseConn(conn) ELSE conn
            /\ iter' = [outer |-> IF iter.outer = "none" THEN "none"
                                  ELSE "closed",
                        inner |-> "closed"]
            /\ pc' = "stream_done"
    /\ UNCHANGED <<inputVars, exc, attempts, opens, writes, rcvd, eof,
                   rawHeader, response, ctx, partial, body, result, received,
                   hooked, seenAlert, raisedAt>>

\* the HTTP server drops the body iterator (the client went away): aclose()
\* of the outermost generator, the inner one finalized with it
Abandon ==
    /\ StreamLive
    /\ closeCalls' = IF StreamBodyCloses(iter.inner)
                     THEN closeCalls + 1 ELSE closeCalls
    /\ conn' = IF StreamBodyCloses(iter.inner) THEN CloseConn(conn) ELSE conn
    /\ iter' = [outer |-> IF iter.outer = "none" THEN "none" ELSE "closed",
                inner |-> "closed"]
    /\ pc' = "stream_abandoned"
    /\ UNCHANGED <<inputVars, exc, attempts, opens, writes, rcvd, eof, pos,
                   rawHeader, response, ctx, partial, body, result, out,
                   received, hooked, seenAlert, raisedAt>>

(* ---------------------- errors and cancellation ----------------------- *)

AfterOpenAwaits == {"drain", "header", "header2", "get_body", "stream_read"}

\* exception e is raised into the task at the await it is suspended on,
\* with the connection in state c: the except and finally clauses on the
\* way out of fetch, get_body or stream_body
AwaitRaises(e, c) ==
    /\ raisedAt' = pc
    /\ pc' = IF e = "CancelledError" THEN "cancelled"
             ELSE IF pc = "stream_read" THEN "stream_failed"
             ELSE "failed"
    /\ exc' = IF pc \in {"connecting", "drain", "header", "header2"}
              THEN GetResponseExc(e) ELSE e
    /\ LET closes ==
               \/ pc = "get_body" /\ GetBodyCloses(e)
               \/ pc = "stream_read" /\ StreamBodyCloses(iter.inner)
       IN  /\ closeCalls' = IF closes THEN closeCalls + 1 ELSE closeCalls
           /\ conn' = IF closes THEN CloseConn(c) ELSE c
    /\ iter' = IF pc = "stream_read"
               THEN [outer |-> IF iter.outer = "none" THEN "none" ELSE "closed",
                     inner |-> "closed"]
               ELSE iter
    /\ UNCHANGED <<inputVars, attempts, opens, writes, rcvd, eof, pos,
                   rawHeader, response, ctx, partial, body, result, out,
                   received, hooked, seenAlert>>

\* the transport fails (reset, TLS failure): asyncio drops the connection
\* and the pending drain() or read raises the OSError
NetError ==
    /\ pc \in AfterOpenAwaits
    /\ conn \in {"open", "peer_closed"}
    /\ AwaitRaises("OSError", "lost")

\* the task is cancelled at the suspension point it waits on
Cancel ==
    /\ pc \in AfterOpenAwaits \cup {"connecting"}
    /\ AwaitRaises("CancelledError", conn)

(* ------------------------------ the peer ------------------------------ *)

\* more bytes of the response reach the StreamReader
ServerSend ==
    /\ conn = "open"
    /\ ~eof
    /\ \E k \in (rcvd + 1)..Len(wire) : rcvd' = k
    /\ UNCHANGED <<inputVars, pc, exc, conn, closeCalls, attempts, opens,
                   writes, eof, pos, rawHeader, response, ctx, partial, body,
                   result, iter, out, received, hooked, seenAlert, raisedAt>>

\* the server closes after its last byte; an asyncio TLS transport shuts
\* itself down at the end of the stream, a plain one stays half-open
ServerClose ==
    /\ conn = "open"
    /\ ~eof
    /\ rcvd = Len(wire)
    /\ eof' = TRUE
    /\ conn' = IF TlsScheme(scheme) THEN "peer_closed" ELSE conn
    /\ UNCHANGED <<inputVars, pc, exc, closeCalls, attempts, opens, writes,
                   rcvd, pos, rawHeader, response, ctx, partial, body, result,
                   iter, out, received, hooked, seenAlert, raisedAt>>

\* the TLS library reports a message on the connection to the hook
TlsMessage ==
    /\ hooked
    /\ pc = "connecting" \/ conn \in {"open", "closed", "peer_closed"}
    /\ \E d \in {"read", "write"}, m \in {"CLOSE_NOTIFY", "HANDSHAKE"} :
           /\ received' = MsgCallback(received, d, m)
           /\ seenAlert' = (seenAlert \/ (d = "read" /\ m = "CLOSE_NOTIFY"))
    /\ UNCHANGED <<inputVars, pc, exc, conn, closeCalls, attempts, opens,
                   writes, rcvd, eof, pos, rawHeader, response, ctx, partial,
                   body, result, iter, out, hooked, raisedAt>>

(* --------------------------- specification ---------------------------- *)

Next ==
    \/ BuildProxyRequest
    \/ NewRequest
    \/ StartFetch
    \/ ConnectOk
    \/ ConnectFail
    \/ DrainOk
    \/ ReadHeader
    \/ ReadHeader2
    \/ BuildProxyResponse
    \/ GetBodyRead
    \/ ConsumerNext
    \/ StreamRead
    \/ Abandon
    \/ NetError
    \/ Cancel
    \/ ServerSend
    \/ ServerClose
    \/ TlsMessage

Spec == Init /\ [][Next]_vars

(* --------------------------- repeated close --------------------------- *)

\* mutant of CloseExc: close() without the try/except around writer.close()
CloseExc_Propagates(e) == e

\* BaseResponse.close: "except Exception" logs whatever writer.close()
\* raised and returns None
CloseExc(e) == IF IsException(e) THEN "" ELSE e

\* what writer.close() can raise: nothing on a live transport; on one the
\* peer already shut down the SSL object may refuse the call
WriterCloseRaises(c) == IF c = "open" THEN {""} ELSE {"", "SSLError"}

\* a holder of the response calls close() once more
CloseAgain ==
    /\ response.exists
    /\ closeCalls >= 1
    /\ closeCalls < MaxCloseCalls
    /\ \E e \in WriterCloseRaises(conn) :
           /\ conn' = CloseConn(conn)
           /\ exc' = IF CloseExc(e) = "" THEN exc ELSE CloseExc(e)
    /\ closeCalls' = closeCalls + 1
    /\ raisedAt' = IF exc' # exc THEN pc ELSE raisedAt
    /\ UNCHANGED <<inputVars, pc, attempts, opens, writes, rcvd, eof, pos,
                   rawHeader, response, ctx, partial, body, result, iter,
                   out, received, hooked, seenAlert>>

NextClose ==
    \/ Next
    \/ CloseAgain

\* the program together with a caller that closes a response repeatedly
SpecClose == Init /\ [][NextClose]_vars

(* --------------------------- request lines ---------------------------- *)

\* str.encode("idna") on a host name: a name with a character outside ASCII
\* becomes its punycode form, an ASCII name stays as it is
IdnaHost(h) == IF h = "b<u-umlaut>cher.de" THEN "xn--bcher-kva.de" ELSE h

\* self.netloc.encode("idna").decode("ascii")
IdnaEncode(n) == [i \in 1..Len(n) |-> IdnaHost(n[i])]

\* mutant of get_gemini_request_url: the fragment is sent with the request
get_gemini_request_url_KeepsFragment(r) ==
    urlunparse(r.scheme, IdnaEncode(netloc(r)),
               IF r.scheme \in {"gemini", "text"} /\ r.path = <<>> THEN <<"/">>
               ELSE r.path,
               r.query, r.fragment)

\* URLReference.get_gemini_request_url
get_gemini_request_url(r) ==
    urlunparse(r.scheme, IdnaEncode(netloc(r)),
               IF r.scheme \in {"gemini", "text"} /\ r.path = <<>> THEN <<"/">>
               ELSE r.path,
               r.query, <<>>)

\* URLReference.get_gemini_request, which GeminiRequest.fetch writes: the
\* request address and CRLF
get_gemini_request(r) == get_gemini_request_url(r) \o <<CR, LF>>

\* TxtRequest.fetch: f"{gemini_url}\r\n".encode()
TxtRequestLine(r) == get_gemini_request_url(r) \o <<CR, LF>>

\* FingerRequest.fetch: b"%s\r\n" % unquote_to_bytes(self.url.finger_request)
FingerRequestBytes(r) == unquote_to_bytes(r.finger_request) \o <<CR, LF>>

\* NexRequest.fetch with the path percent-decoded before it is written
NexRequestBytes_Unquoted(r) == unquote_to_bytes(r.path) \o <<CR, LF>>

\* NexRequest.fetch: f"{selector}\r\n".encode() with selector = self.url.path
NexRequestBytes(r) == r.path \o <<CR, LF>>

\* urllib.parse.quote_from_bytes, one byte: a control byte is escaped
QuoteByte(b) ==
    CASE b = TAB -> "%09"
      [] b = CR -> "%0D"
      [] b = LF -> "%0A"
      [] OTHER -> b

quote_from_bytes(s) == [i \in 1..Len(s) |-> QuoteByte(s[i])]

\* SpartanRequest.fetch: b"%s %s %d\r\n%b" of the idna host, the quoted
\* path, the length of the data and the data
SpartanRequestBytes(r) ==
    LET path == IF r.path # <<>> THEN r.path ELSE <<"/">>
        payload == unquote_to_bytes(r.query)
    IN  IdnaEncode(conn_info(r)[1]) \o <<SP>>
            \o quote_from_bytes(unquote_to_bytes(path))
            \o <<SP, ToString(Len(payload)), CR, LF>> \o payload

\* the bytes the request class of the scheme writes after connecting
WireRequest(r) ==
    CASE r.scheme \in {"gopher", "gophers"} -> get_gopher_request(r)
      [] r.scheme = "finger" -> FingerRequestBytes(r)
      [] r.scheme = "nex" -> NexRequestBytes(r)
      [] r.scheme = "spartan" -> SpartanRequestBytes(r)
      [] r.scheme = "text" -> TxtRequestLine(r)
      [] r.scheme = "gemini" -> get_gemini_request(r)

(* ------------------------------ joining ------------------------------- *)

\* urllib.parse.uses_relative after _extend: the schemes of the model that
\* are in it
UsesRelative == PROXY_SCHEMES

\* '/'.join(segments)
RECURSIVE SlashJoin(_)
SlashJoin(segments) ==
    IF segments = <<>> THEN <<>>
    ELSE IF Len(segments) = 1 THEN Head(segments)
    ELSE Head(segments) \o <<"/">> \o SlashJoin(Tail(segments))

\* urljoin: segments[1:-1] = filter(None, segments[1:-1])
FilterInner(segments) ==
    IF Len(segments) <= 2 THEN segments
    ELSE <<Head(segments)>>
             \o SelectSeq(SubSeq(segments, 2, Len(segments) - 1),
                          LAMBDA seg : seg # <<>>)
             \o <<segments[Len(segments)]>>

\* urljoin: the loop over the segments, ".." pops, "." is skipped
RECURSIVE ResolvePath(_, _)
ResolvePath(segments, resolved_path) ==
    IF segments = <<>> THEN resolved_path
    ELSE IF Head(segments) = <<".", ".">>
    THEN ResolvePath(Tail(segments),
                     IF resolved_path = <<>> THEN <<>>
                     ELSE SubSeq(resolved_path, 1, Len(resolved_path) - 1))
    ELSE IF Head(segments) = <<".">>
    THEN ResolvePath(Tail(segments), resolved_path)
    ELSE ResolvePath(Tail(segments), Append(resolved_path, Head(segments)))

\* urljoin: the path of the result when the reference has a path
JoinedPath(bpath, path) ==
    LET parts == SplitAll(bpath, "/")
        base_parts == IF parts[Len(parts)] # <<>>
                      THEN SubSeq(parts, 1, Len(parts) - 1) ELSE parts
        segments == IF Head(path) = "/" THEN SplitAll(path, "/")
                    ELSE FilterInner(base_parts \o SplitAll(path, "/"))
        resolved == ResolvePath(segments, <<>>)
        resolved_path ==
            IF segments[Len(segments)] \in {<<".">>, <<".", ".">>}
            THEN Append(resolved, <<>>) ELSE resolved
    IN  IF SlashJoin(resolved_path) = <<>> THEN <<"/">>
        ELSE SlashJoin(resolved_path)

\* urllib.parse.urljoin(base, u)
urljoin(base, u) ==
    IF base = <<>> THEN u
    ELSE IF u = <<>> THEN base
    ELSE
    LET bscheme == UrlScheme(base)
        s == IF UrlScheme(u) # "" THEN UrlScheme(u) ELSE bscheme
    IN  IF s # bscheme \/ s \notin UsesRelative THEN u
        ELSE IF UrlNetloc(u) # <<>>
        THEN urlunparse(s, UrlNetloc(u), UrlPath(u), UrlQuery(u),
                        UrlFragment(u))
        ELSE IF UrlPath(u) = <<>>
        THEN urlunparse(s, UrlNetloc(base), UrlPath(base),
                        IF UrlQuery(u) = <<>> THEN UrlQuery(base)
                        ELSE UrlQuery(u),
                        UrlFragment(u))
        ELSE urlunparse(s, UrlNetloc(base),
                        JoinedPath(UrlPath(base), UrlPath(u)),
                        UrlQuery(u), UrlFragment(u))

\* URLReference.__init__(u, base)
URLReferenceFrom(u, base) ==
    URLReference(IF base # <<>> THEN urljoin(base, u) ELSE u)

\* URLReference.join(u)
join(r, u) == URLReferenceFrom(u, get_url(r))

(* ------------------------------ parents ------------------------------- *)

\* str.rstrip("/")
RECURSIVE RStripSlash(_)
RStripSlash(s) ==
    IF s # <<>> /\ s[Len(s)] = "/" THEN RStripSlash(SubSeq(s, 1, Len(s) - 1))
    ELSE s

\* URLReference.get_parent: the path of the parent, for a path that is not
\* empty once its trailing slashes are removed
get_parent_path(r) ==
    LET parts == SplitAll(RStripSlash(r.path), "/")
        pth == SlashJoin(SubSeq(parts, 1, Len(parts) - 1)) \o <<"/">>
    IN  IF r.scheme = "gopher" /\ Len(pth) > 1
        THEN <<"/", "1">> \o Drop(pth, 2)
        ELSE pth

\* URLReference.get_parent(): NoRef stands for None
get_parent(r) ==
    IF RStripSlash(r.path) = <<>> THEN NoRef
    ELSE IF netloc(r) # <<>>
    THEN URLReference(<<r.scheme, ":", "/", "/">> \o netloc(r)
                          \o get_parent_path(r))
    ELSE NoRef

(* ----------------------------- proxy links ---------------------------- *)

\* str.lstrip("/")
RECURSIVE LStripSlash(_)
LStripSlash(s) == IF s # <<>> /\ Head(s) = "/" THEN LStripSlash(Tail(s)) ELSE s

\* URLReference.get_finger_path
get_finger_path(r) ==
    IF r.finger_request # <<>> THEN <<"/">> \o r.finger_request ELSE <<>>

\* URLReference.get_proxy_url: the path given to the router
get_proxy_path(r) ==
    IF r.scheme = "finger" THEN get_finger_path(r)
    ELSE IF r.scheme \in {"gopher", "gophers"} THEN get_gopher_path(r)
    ELSE urlunparse("", <<>>, r.path, r.query, <<>>)

\* no link to the proxy
NoLink ==
    [endpoint |-> "", scheme |-> "", netloc |-> <<>>, path |-> <<>>,
     anchor |-> <<>>, url |-> <<>>]

\* mutant of get_proxy_url_err: an address that is not proxied always raises
get_proxy_url_err_Strict(r, external) ==
    IF r.scheme \notin PROXY_SCHEMES THEN "ValueError" ELSE ""

\* URLReference.get_proxy_url(external): the exception raised, "" for none
get_proxy_url_err(r, external) ==
    IF r.scheme \notin PROXY_SCHEMES /\ ~external THEN "ValueError" ELSE ""

\* URLReference.get_proxy_url(external): the address itself, or the
\* arguments url_for is called with (an empty anchor stands for None)
get_proxy_url(r, external) ==
    IF r.scheme \notin PROXY_SCHEMES
    THEN [NoLink EXCEPT !.url = get_url(r)]
    ELSE IF get_proxy_path(r) # <<>>
    THEN [NoLink EXCEPT !.endpoint = "proxy-path",
                        !.scheme = r.scheme,
                        !.netloc = netloc(r),
                        !.path = LStripSlash(get_proxy_path(r)),
                        !.anchor = r.fragment]
    ELSE [NoLink EXCEPT !.endpoint = "proxy-netloc",
                        !.scheme = r.scheme,
                        !.netloc = netloc(r),
                        !.anchor = r.fragment]

(* ------------------------- derived addresses -------------------------- *)

\* a handle on an address object: alias tells whether the object is the
\* receiver itself, obj holds its fields
NoObject == [alias |-> FALSE, obj |-> NoRef]

\* copy() returning the receiver itself
copy_Alias(r) == [alias |-> TRUE, obj |-> r]

\* URLReference.copy: copy.deepcopy(self), a new object with the fields of
\* the receiver
copy(r) == [alias |-> FALSE, obj |-> r]

\* url.gopher_plus_string = value, on the object a handle names
SetPlusString(h, value) ==
    [h EXCEPT !.obj = [h.obj EXCEPT !.gopher_plus_string = value]]

\* the receiver after an assignment through the handle h: the same object
\* when h is the receiver, untouched otherwise
Receiver(r, h) == IF h.alias THEN h.obj ELSE r

\* URLReference.get_info; NoObject stands for None
get_info(r) ==
    IF r.scheme \notin {"gopher", "gophers"} THEN NoObject
    ELSE SetPlusString(copy(r), <<"!">>)

\* GopherPlusHandler.parse_views_block: the plus-strings it assigns
\* ("+" and the quoted content type)
ViewStrings == {<<"+", "h">>, <<"+">>}

(* -------------------------- address inputs ---------------------------- *)

\* every sequence over S of at most n characters
SeqsUpTo(S, n) == UNION { [1..k -> S] : k \in 0..n }

\* the characters after the authority: separators, item types, a letter,
\* the escaped TAB
UrlChars(s) ==
    IF s \in {"gopher", "gophers"} THEN {"/", "1", "7", "h", "%09", "?"}
    ELSE {"/", "h", "?", "#"}

\* what follows the authority; the first character after the slash is the
\* item type of a gopher address, one character, so no escape stands there
Rests(s) ==
    {<<>>} \cup
        { <<"/">> \o r : r \in { q \in SeqsUpTo(UrlChars(s), MaxRestLen) :
                                   q = <<>> \/ q[1] # "%09" } }

Authorities(s) ==
    IF s = "gopher"
    THEN {<<"mozz.us">>, <<"MOZZ.US", ":", "070">>, <<"mozz.us", ":", "7070">>}
    ELSE IF s = "gemini"
    THEN {<<"mozz.us">>, <<"mozz.us", ":", "1965">>, <<"mozz.us", ":", "7070">>,
          <<"mozz.us", ":", "0">>, <<"b<u-umlaut>cher.de">>, <<>>}
    ELSE IF s = "telnet" THEN {<<"mozz.us">>, <<"mozz.us", ":", "23">>}
    ELSE {<<"mozz.us">>}

\* tests/test_urls.py test_gopher_parse_search_data; a run of letters is
\* written as one character
SearchDataUrl ==
    <<"gopher", ":", "/", "/", "mozz.us", "/", "7", "hello", "%09", "search",
      "%09", "/", "data">>

UrlsOf(s) ==
    { <<s, ":", "/", "/">> \o a \o r : a \in Authorities(s), r \in Rests(s) }

\* a search on a secure gopher server, under a selector of two segments
SecureSearchUrl ==
    <<"gophers", ":", "/", "/", "mozz.us", "/", "7", "h", "/", "h", "%09", "h">>

\* URLReference.get_gopher_request: an address whose plus-string is "?",
\* with a selector and a search string
AskUrl ==
    <<"gopher", ":", "/", "/", "mozz.us", "/", "7", "hello", "%09", "search",
      "%09", "?">>

\* what is typed into the input box: "09" is a run of digits, so that
\* "%" and "09" spell the three characters of an escaped TAB
QueryChars == {"h", SP, TAB}

Queries ==
    (SeqsUpTo(QueryChars, MaxQueryLen) \ {<<>>})
        \cup {<<"%", "09">>, <<"#", "h">>}

\* the proxied schemes and one that is not (tests/test_urls.py
\* test_get_proxy_unknown_scheme)
UrlSchemes == PROXY_SCHEMES \cup {"telnet"}

\* addresses with an escaped CR LF after the first letter of the path,
\* selector or finger request
EscapedLineUrls ==
    { <<s, ":", "/", "/", "mozz.us", "/">> \o t \o <<"h", "%0D", "%0A", "h">> :
        s \in {"gemini", "text", "nex", "finger"}, t \in {<<>>} }
      \cup { <<"gopher", ":", "/", "/", "mozz.us", "/", "1", "h", "%0D", "%0A", "h">> }

Urls ==
    UNION { UrlsOf(s) : s \in UrlSchemes }
        \cup {SearchDataUrl, AskUrl, SecureSearchUrl} \cup EscapedLineUrls

(* -------------------------- address actions --------------------------- *)

\* a request that has not been constructed yet
NotStarted ==
    /\ pc = "new"
    /\ exc = ""
    /\ conn = "none"
    /\ closeCalls = 0
    /\ attempts = 0
    /\ opens = 0
    /\ writes = 0
    /\ rcvd = 0
    /\ eof = FALSE
    /\ pos = 0
    /\ rawHeader = <<>>
    /\ response = NoResponse
    /\ ctx = ""
    /\ partial = <<>>
    /\ body = <<>>
    /\ result = ""
    /\ iter = NoIter
    /\ out = <<>>
    /\ received = FALSE
    /\ hooked = FALSE
    /\ seenAlert = FALSE
    /\ raisedAt = ""

\* nothing of a request is under way
IdleRequest ==
    /\ scheme = "gopher"
    /\ plus = FALSE
    /\ host = MozzUs
    /\ port = 70
    /\ options = [raw |-> FALSE, crt |-> FALSE, raw_crt |-> FALSE]
    /\ urlMime = <<>>
    /\ wire = <<>>
    /\ NotStarted

requestVars ==
    <<scheme, plus, host, port, options, urlMime, wire, pc, exc, conn,
      closeCalls, attempts, opens, writes, rcvd, eof, pos, rawHeader,
      response, ctx, partial, body, result, iter, out, received, hooked,
      seenAlert, raisedAt, decodeVars,
      cacheVars, flowVars>>

InitUrl ==
    /\ IdleRequest
    /\ url \in Urls
    /\ ref = NoRef
    /\ req = <<>>
    /\ canon = <<>>
    /\ ref2 = NoRef
    /\ upc = "new"
    /\ rel = <<>>
    /\ val = <<>>
    /\ err = ""
    /\ NoDecode
    /\ NoCache
    /\ NoFlow

\* ref = URLReference(url)
UrlParse ==
    /\ upc = "new"
    /\ ref' = URLReference(url)
    /\ upc' = IF ref'.exists THEN "parsed" ELSE "invalid"
    /\ UNCHANGED <<requestVars, url, req, canon, ref2, rel, val, err>>

\* GopherRequest.fetch: request = self.url.get_gopher_request()
UrlGetGopherRequest ==
    /\ upc = "parsed"
    /\ ref.scheme \in {"gopher", "gophers"}
    /\ req' = get_gopher_request(ref)
    /\ upc' = "requested"
    /\ UNCHANGED <<requestVars, url, ref, canon, ref2, rel, val, err>>

\* canon = ref.get_url()
UrlGetUrl ==
    /\ upc \in {"parsed", "requested"}
    /\ canon' = get_url(ref)
    /\ upc' = "canonical"
    /\ UNCHANGED <<requestVars, url, ref, req, ref2, rel, val, err>>

\* ref2 = URLReference(canon)
UrlReparse ==
    /\ upc = "canonical"
    /\ ref2' = URLReference(canon)
    /\ upc' = "reparsed"
    /\ UNCHANGED <<requestVars, url, ref, req, canon, rel, val, err>>

\* BaseRequest.__init__: self.host, self.port = url.conn_info
UrlConnInfo ==
    /\ upc = "parsed"
    /\ err' = conn_info_err(ref)
    /\ val' = IF err' = "" THEN conn_info(ref) ELSE <<>>
    /\ upc' = "conn_info"
    /\ UNCHANGED <<requestVars, url, ref, req, canon, ref2, rel>>

\* val = ref.get_parent()
UrlGetParent ==
    /\ upc = "parsed"
    /\ val' = get_parent(ref)
    /\ err' = ""
    /\ upc' = "parent"
    /\ UNCHANGED <<requestVars, url, ref, req, canon, ref2, rel>>

\* val = ref.get_proxy_url(external=external)
UrlGetProxyUrl ==
    /\ upc = "parsed"
    /\ \E external \in BOOLEAN :
          /\ err' = get_proxy_url_err(ref, external)
          /\ val' = [external |-> external,
                     link |-> IF err' = "" THEN get_proxy_url(ref, external)
                              ELSE NoLink]
    /\ upc' = "proxy_url"
    /\ UNCHANGED <<requestVars, url, ref, req, canon, ref2, rel>>

\* mutant of QueryAllowed: a TAB in the search is let through
QueryAllowed_AnyQuery(query) == TRUE

\* proxy: if "\t" in query: raise ValueError
QueryAllowed(query) == \A i \in 1..Len(query) : query[i] # TAB

\* proxy, with a search from the input box (rel) on a gopher address:
\* g.url.gopher_search = quote_gopher(query), then the redirect to
\* g.url.get_proxy_url(external=False)
UrlSetGopherSearch ==
    /\ upc = "parsed"
    /\ ref.scheme \in {"gopher", "gophers"}
    /\ \E query \in Queries :
          /\ rel' = query
          /\ IF QueryAllowed(query)
             THEN /\ val' = [ref EXCEPT !.gopher_search = quote_gopher(query)]
                  /\ req' = get_proxy_url(val', FALSE)
                  /\ err' = ""
                  /\ upc' = "searched"
             ELSE /\ err' = "ValueError"
                  /\ upc' = "search_refused"
                  /\ UNCHANGED <<val, req>>
    /\ UNCHANGED <<requestVars, url, ref, canon, ref2>>

\* canon = g.url.get_url() and ref2 = URLReference(canon), on the address
\* the search was attached to
UrlReparseSearched ==
    /\ upc = "searched"
    /\ canon' = get_url(val)
    /\ ref2' = URLReference(canon')
    /\ upc' = "search_reparsed"
    /\ UNCHANGED <<requestVars, url, ref, req, rel, val, err>>

\* GeminiRequest.fetch and TxtRequest.fetch, on a request that was
\* constructed (conn_info returned): the request line that is written
UrlGetGeminiRequest ==
    /\ upc = "parsed"
    /\ ref.scheme \in {"gemini", "text"}
    /\ conn_info_err(ref) = ""
    /\ req' = IF ref.scheme = "text" THEN TxtRequestLine(ref)
              ELSE get_gemini_request(ref)
    /\ upc' = "request_line"
    /\ UNCHANGED <<requestVars, url, ref, canon, ref2, rel, val, err>>

\* val = ref.get_info()
UrlGetInfo ==
    /\ upc = "parsed"
    /\ val' = get_info(ref)
    /\ ref' = Receiver(ref, val')
    /\ err' = ""
    /\ upc' = "info"
    /\ UNCHANGED <<requestVars, url, req, canon, ref2, rel>>

\* GopherPlusHandler.parse_views_block, on the address get_info returned:
\* url.gopher_plus_string = f"+{quote(content_type)}"
UrlSetPlusString ==
    /\ upc = "info"
    /\ val # NoObject
    /\ \E v \in ViewStrings : val' = SetPlusString(val, v)
    /\ ref' = Receiver(ref, val')
    /\ upc' = "info_changed"
    /\ UNCHANGED <<requestVars, url, req, canon, ref2, rel, err>>

\* FingerRequest.fetch, NexRequest.fetch and SpartanRequest.fetch, on a
\* request that was constructed: the bytes that are written
UrlWriteRequest ==
    /\ upc = "parsed"
    /\ ref.scheme \in {"finger", "nex", "spartan"}
    /\ conn_info_err(ref) = ""
    /\ req' = WireRequest(ref)
    /\ upc' = "written"
    /\ UNCHANGED <<requestVars, url, ref, canon, ref2, rel, val, err>>

\* the address and the address parsed from its canonical string are both
\* requested
UrlRequestBoth ==
    /\ upc = "reparsed"
    /\ ref.scheme \in PROXY_SCHEMES
    /\ ref2.exists
    /\ conn_info_err(ref) = ""
    /\ conn_info_err(ref2) = ""
    /\ val' = [first |-> WireRequest(ref), second |-> WireRequest(ref2)]
    /\ err' = ""
    /\ upc' = "both_requested"
    /\ UNCHANGED <<requestVars, url, ref, req, canon, ref2, rel>>

\* get_parent called again on the parent it returned: ref2 is the address
\* get_parent is called on, val its parent
UrlGetParentAgain ==
    /\ upc \in {"parent", "grandparent"}
    /\ val.exists
    /\ ref2' = val
    /\ val' = get_parent(val)
    /\ upc' = "grandparent"
    /\ UNCHANGED <<requestVars, url, ref, req, canon, rel, err>>

NextUrl ==
    \/ UrlParse
    \/ UrlSetGopherSearch
    \/ UrlReparseSearched
    \/ UrlGetParentAgain
    \/ UrlWriteRequest
    \/ UrlRequestBoth
    \/ UrlGetInfo
    \/ UrlSetPlusString
    \/ UrlConnInfo
    \/ UrlGetGeminiRequest
    \/ UrlGetProxyUrl
    \/ UrlGetParent
    \/ UrlGetGopherRequest
    \/ UrlGetUrl
    \/ UrlReparse

\* the address computations on every address of the input set
SpecUrl == InitUrl /\ [][NextUrl]_vars

(* ---------------------------- join on inputs -------------------------- *)

\* the characters of a base address after its authority
BaseChars == {"/", "h", "?"}

\* the addresses a reference is joined against: every supported scheme, and
\* one address with a port that is not the default
JoinBases ==
    { <<s, ":", "/", "/", "mozz.us">> \o r :
        s \in PROXY_SCHEMES,
        r \in {<<>>} \cup { <<"/">> \o q : q \in SeqsUpTo(BaseChars, MaxBaseLen) } }
    \cup
    { <<"gemini", ":", "/", "/", "mozz.us", ":", "7070">> \o r :
        r \in {<<>>} \cup { <<"/">> \o q : q \in SeqsUpTo(BaseChars, MaxBaseLen) } }

\* the references joined: relative paths with dot segments, and absolute
\* addresses (tests/test_urls.py test_get_proxy_gopher_link,
\* test_get_proxy_gemini_link_different_host)
RelRefs ==
    SeqsUpTo({".", "/", "h"}, MaxRelLen)
    \cup { <<"gopher", ":", "/", "/", "mozz.us">>,
           <<"gemini", ":", "/", "/", "ascii.mozz.us">>,
           <<"gemini", ":", "/", "/", "ascii.mozz.us", "/", "h">> }

InitJoin ==
    /\ IdleRequest
    /\ url \in JoinBases
    /\ ref = NoRef
    /\ req = <<>>
    /\ canon = <<>>
    /\ ref2 = NoRef
    /\ upc = "new"
    /\ rel \in RelRefs
    /\ val = <<>>
    /\ err = ""
    /\ NoDecode
    /\ NoCache
    /\ NoFlow

\* val = ref.join(rel)
UrlJoin ==
    /\ upc = "parsed"
    /\ val' = join(ref, rel)
    /\ err' = IF val'.exists THEN "" ELSE "ValueError"
    /\ upc' = "joined"
    /\ UNCHANGED <<requestVars, url, ref, req, canon, ref2, rel>>

NextJoin ==
    \/ UrlParse
    \/ UrlJoin

\* the joins of every reference with every base of the input sets
SpecJoin == InitJoin /\ [][NextJoin]_vars

(* ---------------------------- text decoding --------------------------- *)

\* the bytes of the model: the letter a, the two bytes of the UTF-8 form of
\* e-acute (C3 A9), and FF, which no UTF-8 text holds
Bytes == {"a", "C3", "A9", "FF"}

\* bytes.decode("UTF-8", errors="replace"): every byte that is not part of
\* a well-formed sequence becomes U+FFFD
RECURSIVE DecodeUtf8(_)
DecodeUtf8(d) ==
    IF d = <<>> THEN <<>>
    ELSE IF d[1] = "a" THEN <<"a">> \o DecodeUtf8(Tail(d))
    ELSE IF d[1] = "C3" /\ Len(d) >= 2 /\ d[2] = "A9"
    THEN <<"U+00E9">> \o DecodeUtf8(Drop(d, 2))
    ELSE <<"U+FFFD">> \o DecodeUtf8(Tail(d))

\* data.decode("UTF-8") does not raise UnicodeDecodeError
ValidUtf8(d) == \A i \in 1..Len(DecodeUtf8(d)) : DecodeUtf8(d)[i] # "U+FFFD"

\* bytes.decode("ISO-8859-1"): every byte is the character of its number
Latin1Char(b) ==
    CASE b = "a" -> "a"
      [] b = "C3" -> "U+00C3"
      [] b = "A9" -> "U+00A9"
      [] b = "FF" -> "U+00FF"

\* data.decode(charset, errors="replace")
Decode(d, charset) ==
    IF charset = "UTF-8" THEN DecodeUtf8(d)
    ELSE [i \in 1..Len(d) |-> Latin1Char(d[i])]

\* the confidence of a detection is kept in hundredths: 0.5 is 50
HalfConfidence == 50

\* mutant of DetectedCharset: a confidence of exactly 0.5 is accepted
DetectedCharset_AtLeastHalf(detection) ==
    IF detection.confidence >= HalfConfidence THEN detection.encoding
    ELSE "UTF-8"

\* smart_decode: the charset chosen after UTF-8 failed
DetectedCharset(detection) ==
    IF detection.confidence > HalfConfidence THEN detection.encoding
    ELSE "UTF-8"

\* smart_decode(data, charset): (text, charset)
smart_decode(d, charset, detection) ==
    IF charset # "" THEN <<Decode(d, charset), charset>>
    ELSE IF ValidUtf8(d) THEN <<DecodeUtf8(d), "UTF-8">>
    ELSE <<Decode(d, DetectedCharset(detection)), DetectedCharset(detection)>>

\* what chardet.detect can answer
Detections ==
    {NoDetection}
        \cup { [encoding |-> "ISO-8859-1", confidence |-> c] :
                 c \in {20, HalfConfidence, HalfConfidence + 1, 73, 100} }

InitDecode ==
    /\ scheme = "gopher"
    /\ plus = FALSE
    /\ host = MozzUs
    /\ port = 70
    /\ options = [raw |-> FALSE, crt |-> FALSE, raw_crt |-> FALSE]
    /\ urlMime = <<>>
    /\ wire = <<>>
    /\ NotStarted
    /\ url = <<>>
    /\ ref = NoRef
    /\ req = <<>>
    /\ canon = <<>>
    /\ ref2 = NoRef
    /\ upc = "new"
    /\ rel = <<>>
    /\ val = <<>>
    /\ err = ""
    /\ data \in SeqsUpTo(Bytes, MaxDataLen)
    /\ declared \in {"", "UTF-8", "ISO-8859-1"}
    /\ autodetect \in Detections
    /\ NoCache
    /\ NoFlow

\* TemplateHandler.text: self._text, self.charset = smart_decode(...)
SmartDecode ==
    /\ upc = "new"
    /\ val' = smart_decode(data, declared, autodetect)
    /\ upc' = "decoded"
    /\ UNCHANGED <<requestVars, url, ref, req, canon, ref2, rel, err>>

NextDecode == SmartDecode

\* smart_decode on every input of the input sets
SpecDecode == InitDecode /\ [][NextDecode]_vars

(* ------------------------------ the policy --------------------------- *)

\* the hosts the host test is tried on: an unrelated host, a blocked domain,
\* a subdomain of it, and hosts that resemble it
PolicyHosts ==
    { MozzUs,
      VgerCloud,
      SubVgerCloud,
      <<"V", "G", "E", "R", ".", "C", "L", "O", "U", "D">>,
      VgerCloud \o <<".">>,
      VgerCloud \o <<".", ".">>,
      VgerCloud \o <<".", "x">>,
      <<"x">> \o VgerCloud,
      <<"x", ".">> \o VgerCloud,
      <<"v", "g", "e", "r", "x", "c", "l", "o", "u", "d">>,
      <<"v", "g", "e", "r", "-", "c", "l", "o", "u", "d">>,
      <<"v", "g", "e", "r", ".", "c", "l", "o", "u">> }

\* every port up to MaxPort is tried with the unrelated host, the default
\* port of the scheme and the ssh port with every host
InitPolicy ==
    /\ scheme \in UrlSchemes
    /\ plus = FALSE
    /\ host \in PolicyHosts
    /\ port \in 0..MaxPort
    /\ host = MozzUs \/ port \in {DefaultPort("gemini"), SshPort}
    /\ options = [raw |-> FALSE, crt |-> FALSE, raw_crt |-> FALSE]
    /\ urlMime = <<>>
    /\ wire = <<>>
    /\ NotStarted
    /\ url = <<>>
    /\ ref = NoRef
    /\ req = <<>>
    /\ canon = <<>>
    /\ ref2 = NoRef
    /\ upc = "off"
    /\ rel = <<>>
    /\ val = <<>>
    /\ err = ""
    /\ NoDecode
    /\ NoCache
    /\ NoFlow

NextPolicy ==
    \/ BuildProxyRequest
    \/ NewRequest

\* the construction of a request, on every host and port of the input set
SpecPolicy == InitPolicy /\ [][NextPolicy]_vars

(* ----------------------- header parsing on inputs ---------------------- *)

\* the bytes of a header line: white space, a digit, a letter, and FF,
\* which no UTF-8 text holds
HeaderBytes == {SP, TAB, LF, "2", "a", "FF"}

\* raw_header.decode() returns: the ASCII bytes are their characters, FF
\* raises UnicodeDecodeError
HeaderDecodes(raw_header) ==
    \A i \in 1..Len(raw_header) : raw_header[i] # "FF"

\* protocols.py BaseRequest.parse_header, the older parser
parse_header(raw_header) ==
    LET parts == SplitOnce(Strip(raw_header)) IN
    IF Len(parts) = 0 THEN [ok |-> TRUE, status |-> <<>>, meta |-> <<>>]
    ELSE IF Len(parts) = 1
         THEN [ok |-> TRUE, status |-> parts[1], meta |-> <<>>]
         ELSE [ok |-> TRUE, status |-> parts[1], meta |-> parts[2]]

\* what a parser leaves: the pair it returned and the exception it raised
ParserResult(raw_header, parsed) ==
    IF ~HeaderDecodes(raw_header)
    THEN [pair |-> <<>>, raised |-> "UnicodeDecodeError"]
    ELSE IF ~parsed.ok THEN [pair |-> <<>>, raised |-> "ValueError"]
    ELSE [pair |-> <<parsed.status, parsed.meta>>, raised |-> ""]

InitHeader ==
    /\ scheme = "gemini"
    /\ plus = FALSE
    /\ host = MozzUs
    /\ port = 1965
    /\ options = [raw |-> FALSE, crt |-> FALSE, raw_crt |-> FALSE]
    /\ urlMime = <<>>
    /\ wire = <<>>
    /\ pc = "new"
    /\ exc = ""
    /\ conn = "none"
    /\ closeCalls = 0
    /\ attempts = 0
    /\ opens = 0
    /\ writes = 0
    /\ rcvd = 0
    /\ eof = FALSE
    /\ pos = 0
    /\ rawHeader \in SeqsUpTo(HeaderBytes, MaxHeaderLen)
    /\ response = NoResponse
    /\ ctx = "template"
    /\ partial = <<>>
    /\ body = <<>>
    /\ result = ""
    /\ iter = NoIter
    /\ out = <<>>
    /\ received = FALSE
    /\ hooked = FALSE
    /\ seenAlert = FALSE
    /\ raisedAt = ""
    /\ url = <<>>
    /\ ref = NoRef
    /\ req = <<>>
    /\ canon = <<>>
    /\ ref2 = NoRef
    /\ upc = "new"
    /\ rel = <<>>
    /\ val = <<>>
    /\ err = ""
    /\ NoDecode
    /\ NoCache
    /\ NoFlow

\* status, meta = self.parse_response_header(raw_header), and the same
\* line given to the older parse_header
ParseHeader ==
    /\ upc = "new"
    /\ val' = [new |-> ParserResult(rawHeader, parse_response_header(rawHeader)),
               old |-> ParserResult(rawHeader, parse_header(rawHeader))]
    /\ upc' = "header_parsed"
    /\ UNCHANGED <<scheme, plus, host, port, options, urlMime, wire, pc, exc,
                   conn, closeCalls, attempts, opens, writes, rcvd, eof, pos,
                   rawHeader, response, ctx, partial, body, result, iter, out,
                   received, hooked, seenAlert, raisedAt, url, ref, req,
                   canon, ref2, rel, err, decodeVars, cacheVars,
                   flowVars>>

NextHeader == ParseHeader

SpecHeader == InitHeader /\ [][NextHeader]_vars

(* --------------------------- the favicon cache ------------------------- *)

\* FaviconCache.FAVICON_PATH
FAVICON_PATH == <<"/", "favicon.txt">>

\* FaviconCache.EXPIRATION
EXPIRATION == 60 * 60 * 4

\* the clock moves by half of the expiration period
TickSeconds == EXPIRATION \div 2

\* the addresses check() is called with
CheckUrls ==
    { <<"gemini", ":", "/", "/", "mozz.us">>,
      <<"gemini", ":", "/", "/", "mozz.us", "/", "h">>,
      <<"spartan", ":", "/", "/", "vger.cloud", "/">>,
      <<"gopher", ":", "/", "/", "mozz.us", "/", "1", "h">> }

\* check: if url.scheme not in ("gemini", "spartan"): return None
CachedSchemes == {"gemini", "spartan"}

\* check: key = url.join(self.FAVICON_PATH).get_url()
FaviconKey == [u \in CheckUrls |-> get_url(join(URLReference(u), FAVICON_PATH))]

FaviconKeys ==
    { FaviconKey[u] : u \in { v \in CheckUrls : UrlScheme(v) \in CachedSchemes } }

\* the host of a favicon address, letter by letter as clean() matches it
HostChars(h) ==
    CASE h = <<"mozz.us">> -> MozzUs
      [] h = <<"vger.cloud">> -> VgerCloud

\* _fetch_favicon: request = build_proxy_request(favicon_url) returns
FaviconRequestOk ==
    [key \in FaviconKeys |->
        LET r == URLReference(key)
        IN  /\ conn_info_err(r) = ""
            /\ BuildProxyRequestOk(r.scheme, HostChars(conn_info(r)[1]),
                                   conn_info(r)[2])]

\* no entry under a key of the shelve file
NoEntry == [exists |-> FALSE, ttl |-> 0, value |-> "None"]

\* check() was not called yet
NoCheck ==
    [called |-> FALSE, key |-> <<>>, busy |-> FALSE, early |-> FALSE,
     started |-> FALSE, value |-> "None"]

\* no _update task was created for a key: running and finished count the
\* tasks that have not ended and those whose callback has not run, cancel
\* tells that task.cancel() was called on the task under the key, last
\* and until are how the last task that was not cancelled ended and when
\* an entry written then expires
NoJobs ==
    [running |-> 0, finished |-> 0, cancel |-> FALSE, last |-> "",
     until |-> 0]

\* check without the test of self.tasks
KeyNotInTasks_Always(key) == TRUE

\* check: if key not in self.tasks
KeyNotInTasks(key) == ~tasks[key]

\* check: the entry of the key is there and has not expired
Fresh(key) == db[key].exists /\ clock < db[key].ttl

\* how _update can end: CancelledError after task.cancel(), ValueError from
\* build_proxy_request, else a favicon, no favicon, ProxyError from
\* get_response or get_body, or another exception (LookupError from
\* body.decode with a charset python does not know)
Outcomes(key) ==
    IF jobs[key].cancel THEN {"CancelledError"}
    ELSE IF ~FaviconRequestOk[key] THEN {"ValueError"}
    ELSE {"favicon", "nothing", "ProxyError", "LookupError"}

\* _update: try ... except ProxyError, then the entry is written; any other
\* exception leaves _update before that
Stores(outcome) == outcome \in {"favicon", "nothing", "ProxyError"}

InitFavicon ==
    /\ scheme = "gemini"
    /\ plus = FALSE
    /\ host = MozzUs
    /\ port = 1965
    /\ options = [raw |-> FALSE, crt |-> FALSE, raw_crt |-> FALSE]
    /\ urlMime = <<>>
    /\ wire = <<>>
    /\ NotStarted
    /\ url = <<>>
    /\ ref = NoRef
    /\ req = <<>>
    /\ canon = <<>>
    /\ ref2 = NoRef
    /\ upc = "off"
    /\ rel = <<>>
    /\ val = <<>>
    /\ err = ""
    /\ NoDecode
    /\ db = [k \in FaviconKeys |-> NoEntry]
    /\ tasks = [k \in FaviconKeys |-> FALSE]
    /\ jobs = [k \in FaviconKeys |-> NoJobs]
    /\ clock = 0
    /\ ret = NoCheck
    /\ NoFlow

\* FaviconCache.check(url)
Check ==
    /\ \E u \in CheckUrls :
          LET key == FaviconKey[u]
              called == [called |-> TRUE, key |-> key,
                         busy |-> jobs[key].running > 0,
                         early |-> jobs[key].last # ""
                                     /\ clock < jobs[key].until,
                         started |-> FALSE, value |-> "None"]
          IN  IF UrlScheme(u) \notin CachedSchemes
              THEN /\ ret' = [NoCheck EXCEPT !.called = TRUE]
                   /\ UNCHANGED <<db, tasks, jobs, clock>>
              ELSE IF Fresh(key)
              THEN /\ ret' = [called EXCEPT !.value = db[key].value]
                   /\ UNCHANGED <<db, tasks, jobs, clock>>
              ELSE IF KeyNotInTasks(key)
              THEN /\ jobs' = [jobs EXCEPT ![key].running = @ + 1,
                                           ![key].cancel = FALSE]
                   /\ tasks' = [tasks EXCEPT ![key] = TRUE]
                   /\ ret' = [called EXCEPT !.started = TRUE]
                   /\ UNCHANGED <<db, clock>>
              ELSE /\ ret' = called
                   /\ UNCHANGED <<db, tasks, jobs, clock>>
    /\ UNCHANGED portalVars

\* FaviconCache._update runs to its end
Update ==
    /\ \E key \in FaviconKeys :
          /\ jobs[key].running > 0
          /\ \E o \in Outcomes(key) :
                /\ jobs' = [jobs EXCEPT
                              ![key].running = @ - 1,
                              ![key].finished = @ + 1,
                              ![key].last = IF o = "CancelledError" THEN @
                                            ELSE o,
                              ![key].until = IF o = "CancelledError" THEN @
                                             ELSE clock + EXPIRATION]
                /\ db' = IF Stores(o)
                         THEN [db EXCEPT ![key] =
                                  [exists |-> TRUE,
                                   ttl |-> clock + EXPIRATION,
                                   value |-> IF o = "favicon" THEN "icon"
                                             ELSE "None"]]
                         ELSE db
    /\ UNCHANGED <<tasks, clock, ret>>
    /\ UNCHANGED portalVars

\* the callback of a finished task: lambda *_: self.tasks.pop(key)
DoneCallback ==
    /\ \E key \in FaviconKeys :
          /\ jobs[key].finished > 0
          /\ jobs' = [jobs EXCEPT ![key].finished = @ - 1]
          /\ tasks' = [tasks EXCEPT ![key] = FALSE]
    /\ UNCHANGED <<db, clock, ret>>
    /\ UNCHANGED portalVars

\* FaviconCache.shutdown: task.cancel() for every task of self.tasks
Shutdown ==
    /\ \E k \in FaviconKeys :
          tasks[k] /\ jobs[k].running > 0 /\ ~jobs[k].cancel
    /\ jobs' = [k \in FaviconKeys |->
                  IF tasks[k] /\ jobs[k].running > 0
                  THEN [jobs[k] EXCEPT !.cancel = TRUE]
                  ELSE jobs[k]]
    /\ UNCHANGED <<db, tasks, clock, ret>>
    /\ UNCHANGED portalVars

\* time passes
Tick ==
    /\ clock < MaxTicks * TickSeconds
    /\ clock' = clock + TickSeconds
    /\ UNCHANGED <<db, tasks, jobs, ret>>
    /\ UNCHANGED portalVars

NextFavicon ==
    \/ Check
    \/ Update
    \/ DoneCallback
    \/ Shutdown
    \/ Tick

SpecFavicon == InitFavicon /\ [][NextFavicon]_vars

(* ------------------------- the gemtext converter ----------------------- *)

\* the three backquotes of a preformat fence, as one character
FENCE == "FENCE"

\* RABBIT_STANDALONE
RABBIT_STANDALONE == <<";rabbit;">>

\* self.url of the handler: the address of the document
DocumentUrl == <<"gemini", ":", "/", "/", "mozz.us", "/">>

\* lines of a document: a fence, list items (the second is a star once its
\* trailing space is stripped), a quote, headings, links (the second has a
\* port that is no number), an input line, text, an empty line, the rabbit
GemtextLines ==
    { <<FENCE>>,
      <<"*", SP, "h">>,
      <<"*", SP>>,
      <<">", "h">>,
      <<"#", "h">>,
      <<"#", "#", "h">>,
      <<"#", "#", "#", "h">>,
      <<"=>", SP, "h">>,
      <<"=>", SP, "gemini", ":", "/", "/", "mozz.us", ":", "x", "/">>,
      <<"=:", SP, "h">>,
      <<"h">>,
      <<>>,
      RABBIT_STANDALONE }

\* str.startswith
HasPrefix(line, prefix) ==
    Len(line) >= Len(prefix) /\ SubSeq(line, 1, Len(prefix)) = prefix

\* parse_link_line: parts = line.split(maxsplit=1); url = base.join(link)
parse_link_line(line, base) ==
    LET parts == SplitOnce(Strip(line))
        link == IF parts = <<>> THEN <<>> ELSE parts[1]
    IN  join(base, link)

\* the fields of the handler that get_body and flush work on
Handler ==
    [sections |-> sections, buffer |-> buffer,
     preformat_mode |-> preformat_mode, list_mode |-> list_mode,
     quote_mode |-> quote_mode]

\* self.sections.append(...): a section and the lines that are in it
Section(tag, lines) == [tag |-> tag, lines |-> lines]

\* mutant of flush: a list that is flushed leaves list_mode on
flush_KeepsListMode(h) ==
    IF h.buffer = <<>> THEN h
    ELSE IF h.preformat_mode
    THEN [h EXCEPT !.sections = Append(@, Section("pre", h.buffer)),
                   !.buffer = <<>>]
    ELSE IF h.list_mode
    THEN [h EXCEPT !.sections = Append(@, Section("ul", h.buffer)),
                   !.buffer = <<>>]
    ELSE IF h.quote_mode
    THEN [h EXCEPT !.sections = Append(@, Section("blockquote", h.buffer)),
                   !.quote_mode = FALSE,
                   !.buffer = <<>>]
    ELSE [h EXCEPT !.sections = Append(@, Section("p", h.buffer)),
                   !.buffer = <<>>]

\* GeminiFlowedHandler.flush
flush(h) ==
    IF h.buffer = <<>> THEN h
    ELSE IF h.preformat_mode
    THEN [h EXCEPT !.sections = Append(@, Section("pre", h.buffer)),
                   !.buffer = <<>>]
    ELSE IF h.list_mode
    THEN [h EXCEPT !.sections = Append(@, Section("ul", h.buffer)),
                   !.list_mode = FALSE,
                   !.buffer = <<>>]
    ELSE IF h.quote_mode
    THEN [h EXCEPT !.sections = Append(@, Section("blockquote", h.buffer)),
                   !.quote_mode = FALSE,
                   !.buffer = <<>>]
    ELSE [h EXCEPT !.sections = Append(@, Section("p", h.buffer)),
                   !.buffer = <<>>]

\* self.flush(), then self.sections.append(...) of a section for line n
FlushAndAppend(h, tag, n) ==
    [flush(h) EXCEPT !.sections = Append(@, Section(tag, <<n>>))]

\* get_body: whether the turn of the loop for this line raises, which is
\* when the address of a link or input line cannot be joined
LineRaises(h, line) ==
    /\ ~HasPrefix(line, <<FENCE>>)
    /\ ~h.preformat_mode
    /\ line # RABBIT_STANDALONE
    /\ HasPrefix(line, <<"=>">>) \/ HasPrefix(line, <<"=:">>)
    /\ ~parse_link_line(Drop(line, 1), URLReference(DocumentUrl)).exists

\* get_body: one turn of the loop, for line n of the text, which does not
\* raise
get_body_line(h, n) ==
    LET line == RStrip(text[n])
    IN  IF HasPrefix(line, <<FENCE>>)
        THEN [flush(h) EXCEPT !.preformat_mode = ~h.preformat_mode]
        ELSE IF h.preformat_mode
        THEN [h EXCEPT !.buffer = Append(@, n)]
        ELSE IF line = RABBIT_STANDALONE THEN FlushAndAppend(h, "pre", n)
        ELSE IF HasPrefix(line, <<"=>">>) THEN FlushAndAppend(h, "a", n)
        ELSE IF HasPrefix(line, <<"=:">>) THEN FlushAndAppend(h, "form", n)
        ELSE IF HasPrefix(line, <<"#", "#", "#">>)
        THEN FlushAndAppend(h, "h3", n)
        ELSE IF HasPrefix(line, <<"#", "#">>) THEN FlushAndAppend(h, "h2", n)
        ELSE IF HasPrefix(line, <<"#">>) THEN FlushAndAppend(h, "h1", n)
        ELSE IF HasPrefix(line, <<"*", SP>>)
        THEN [(IF ~h.list_mode THEN [flush(h) EXCEPT !.list_mode = TRUE]
               ELSE h) EXCEPT !.buffer = Append(@, n)]
        ELSE IF HasPrefix(line, <<">">>)
        THEN [(IF ~h.quote_mode THEN [flush(h) EXCEPT !.quote_mode = TRUE]
               ELSE h) EXCEPT !.buffer = Append(@, n)]
        ELSE [(IF h.list_mode \/ h.quote_mode THEN flush(h) ELSE h)
                 EXCEPT !.buffer = Append(@, n)]

\* the handler after a step that leaves it as h
SetHandler(h) ==
    /\ sections' = h.sections
    /\ buffer' = h.buffer
    /\ preformat_mode' = h.preformat_mode
    /\ list_mode' = h.list_mode
    /\ quote_mode' = h.quote_mode

\* everything but the converter
notFlowVars ==
    <<scheme, plus, host, port, options, urlMime, wire, pc, exc, conn,
      closeCalls, attempts, opens, writes, rcvd, eof, pos, rawHeader,
      response, ctx, partial, body, result, iter, out, received, hooked,
      seenAlert, raisedAt, url, ref, req, canon, ref2, upc, rel, val, err,
      decodeVars, cacheVars>>

\* get_body was called on a handler that was just constructed
InitFlowed ==
    /\ IdleRequest
    /\ url = DocumentUrl
    /\ ref = NoRef
    /\ req = <<>>
    /\ canon = <<>>
    /\ ref2 = NoRef
    /\ upc = "off"
    /\ rel = <<>>
    /\ val = <<>>
    /\ err = ""
    /\ NoDecode
    /\ NoCache
    /\ text \in SeqsUpTo(GemtextLines, MaxLines)
    /\ lineno = 0
    /\ sections = <<>>
    /\ buffer = <<>>
    /\ preformat_mode = FALSE
    /\ list_mode = FALSE
    /\ quote_mode = FALSE
    /\ fpc = "lines"

\* get_body: one turn of the loop over the lines; a link that cannot be
\* joined raises ValueError after the flush of its branch
GetBodyLine ==
    /\ fpc = "lines"
    /\ lineno < Len(text)
    /\ IF LineRaises(Handler, RStrip(text[lineno + 1]))
       THEN /\ SetHandler(flush(Handler))
            /\ fpc' = "raised"
            /\ UNCHANGED lineno
       ELSE /\ SetHandler(get_body_line(Handler, lineno + 1))
            /\ lineno' = lineno + 1
            /\ UNCHANGED fpc
    /\ UNCHANGED <<notFlowVars, text>>

\* get_body: after the loop, self.flush() and the body is returned
GetBodyReturn ==
    /\ fpc = "lines"
    /\ lineno = Len(text)
    /\ SetHandler(flush(Handler))
    /\ fpc' = "done"
    /\ UNCHANGED <<notFlowVars, text, lineno>>

NextFlowed ==
    \/ GetBodyLine
    \/ GetBodyReturn

\* the conversion of every document of the input set
SpecFlowed == InitFlowed /\ [][NextFlowed]_vars

(* ------------------------------- claims ------------------------------- *)

\* the policy, stated on the inputs: a blocklisted host (the domain itself
\* or a subdomain of it) or a port outside the allowed ports
TargetRefused ==
    host \in {VgerCloud, SubVgerCloud} \/ port \notin ALLOWED_PORTS

\* the bytes of the stream after the place the response object was built at
WireBody == Drop(wire, response.bodyStart)

IsPrefix(a, b) == Len(a) <= Len(b) /\ a = Take(b, Len(a))

\* C1: for a blocklisted host or a port that is not allowed, constructing
\* the request raises, and no lookup, no connection and no request write
\* ever happens for that request.
C1_PolicyBeforeConnect ==
    TargetRefused =>
        /\ pc \in {"new", "rejected"}
        /\ pc = "rejected" => exc = "ValueError"
        /\ attempts = 0 /\ opens = 0 /\ writes = 0 /\ conn = "none"

C1_Witness == pc = "rejected" /\ host = MozzUs /\ port = SshPort

\* C2: once build_proxy_response has completed and the body stream it
\* returned, if any, is exhausted or abandoned, the connection has been
\* closed, on every path.
C2_ClosedAfterResponse ==
    (\/ pc = "responded" /\ result # "stream"
     \/ pc \in {"stream_done", "stream_abandoned"})
        => conn # "open"

\* C3: stream_body yields non-empty chunks, the connection is not closed
\* while the stream is live, and it is closed exactly once when the stream
\* ends: by end of stream, by an error in a read, or by the consumer
\* abandoning the iterator.
C3_StreamClosesOnce ==
    /\ \A i \in 1..Len(out) : out[i] # <<>>
    /\ (result = "stream" /\ pc \in {"responded", "stream_read"})
           => closeCalls = 0
    /\ (\/ pc \in {"stream_done", "stream_failed", "stream_abandoned"}
        \/ pc = "cancelled" /\ raisedAt = "stream_read")
           => closeCalls = 1

\* C4: get_body has two outcomes on a readable stream: the end of the
\* stream before MAX_BODY_SIZE bytes, and it returns exactly the body and
\* closes the connection; or MAX_BODY_SIZE bytes first, and it raises
\* ProxyResponseSizeError with exactly those bytes and does not close.
C4_GetBodyOutcomes ==
    /\ result \in {"rendered", "crt_page"} =>
           /\ Len(WireBody) < MAX_BODY_SIZE
           /\ body = WireBody
           /\ closeCalls = 1
           /\ conn # "open"
    /\ (iter.outer # "none" \/ exc = "ProxyResponseSizeError") =>
           /\ Len(WireBody) >= MAX_BODY_SIZE
           /\ partial = Take(WireBody, MAX_BODY_SIZE)
    /\ (iter.outer = "created" \/ exc = "ProxyResponseSizeError") =>
           /\ closeCalls = 0
           /\ conn \in {"open", "peer_closed"}

C4_Witness ==
    /\ iter.outer = "created"
    /\ Len(WireBody) = MAX_BODY_SIZE
    /\ eof

\* C5: after an overflow, the partial bytes followed by the chunks of the
\* streaming read are the server's body byte for byte.
C5_OverflowKeepsBytes ==
    iter.outer # "none" =>
        /\ IsPrefix(Flatten(out), WireBody)
        /\ pc = "stream_done" => Flatten(out) = WireBody

C5_Witness ==
    /\ pc = "stream_done"
    /\ iter.outer = "closed"
    /\ Len(out) >= 3
    /\ Len(WireBody) = MaxBodyLen

C7_CancelCloses ==
    (pc = "cancelled" /\ raisedAt \in AfterOpenAwaits) => conn # "open"

\* C8: a request opens at most one connection and writes exactly one wire
\* request on it; after a connect failure or timeout nothing was written,
\* and after an error status or a redirect there is no second attempt.
C8_OneRequestPerInstance ==
    /\ attempts <= 1
    /\ opens <= attempts
    /\ writes = opens
    /\ raisedAt = "connecting" => (opens = 0 /\ writes = 0 /\ conn = "none")
    /\ result \in {"redirect", "failure"} => (attempts = 1 /\ writes = 1)
    /\ pc = "failed" => attempts = 1

C8_Witness == result = "redirect" /\ attempts = 1 /\ writes = 1 /\ eof

\* where the header line ends in s: at its first LF, or at the end of s
LineEnd(s) ==
    IF \E i \in 1..Len(s) : s[i] = LF
    THEN CHOOSE i \in 1..Len(s) : s[i] = LF /\ \A j \in 1..(i - 1) : s[j] # LF
    ELSE Len(s)

\* where the body starts on the wire: after the header line, after the
\* two lines of a gopher+ error, at the first byte without a header
ExpectedBodyStart ==
    IF ~HeaderBearing(scheme, plus) THEN 0
    ELSE IF plus /\ wire # <<>> /\ wire[1] = "-"
         THEN LineEnd(wire) + LineEnd(Drop(wire, LineEnd(wire)))
         ELSE LineEnd(wire)

\* C9: a response object of a header-bearing protocol exists only after
\* the whole header was read and its body starts at the first byte after
\* the header line(s); without a header the body starts at the first byte.
C9_BodyAfterHeader ==
    /\ (HeaderBearing(scheme, plus) /\ pc \in {"drain", "header", "header2"})
           => ~response.exists
    /\ response.exists =>
           /\ response.bodyStart = ExpectedBodyStart
           /\ pos >= ExpectedBodyStart
           /\ result \in {"rendered", "crt_page"}
                  => body = Drop(wire, ExpectedBodyStart)
           /\ (pc = "stream_done" /\ iter.outer = "none")
                  => Flatten(out) = Drop(wire, ExpectedBodyStart)

C9_Witness ==
    /\ scheme = "gopher"
    /\ plus
    /\ wire # <<>>
    /\ wire[1] = "-"
    /\ pc = "stream_done"
    /\ out # <<>>

\* C10: the close-notify fact is false at creation, is true exactly when a
\* CLOSE_NOTIFY alert was read on the connection, never goes back to
\* false, and the response object that carries it is there after the body
\* read, however that read ended.
C10_CloseNotifyFact ==
    /\ [](received = seenAlert)
    /\ []((scheme = "gemini" /\ raisedAt = "get_body") => response.exists)
    /\ [][received => received']_vars

C10_Witness ==
    /\ scheme = "gemini"
    /\ received
    /\ response.exists
    /\ exc = "ProxyResponseSizeError"

\* C11: close() may be called again on a response, also when the peer
\* closed the connection first: a second or later call raises nothing and
\* leaves the connection and the response as the first call left them.
C11_CloseIdempotent ==
    [][(closeCalls >= 1 /\ closeCalls' > closeCalls) =>
           /\ exc' = exc
           /\ conn' = conn
           /\ response' = response
           /\ pc' = pc]_vars

C11_Witness ==
    /\ closeCalls >= 2
    /\ conn = "peer_closed"
    /\ seenAlert
    /\ response.exists

\* the fields of an address that parsing its canonical string has to give
\* back, and the request they are sent as
SameAddress(a, b) ==
    /\ a.scheme = b.scheme
    /\ a.hostname = b.hostname
    /\ a.port = b.port
    /\ a.path = b.path
    /\ a.gopher_item_type = b.gopher_item_type
    /\ a.gopher_selector = b.gopher_selector
    /\ a.gopher_search = b.gopher_search
    /\ a.gopher_plus_string = b.gopher_plus_string
    /\ get_gopher_request(a) = get_gopher_request(b)

\* C12: parsing the canonical string of an address gives an equivalent
\* address: same scheme, host, resolved port and path, same item type,
\* selector, search string and plus-string, and so the same wire request.
C12_RoundTrip == upc = "reparsed" => (ref2.exists /\ SameAddress(ref, ref2))

\* C13: gopher://mozz.us/7hello%09search%09/data parses to the selector
\* "hello" and the search string "search%09/data", and get_url gives the
\* string back.
C13_SearchKeepsSecondTab ==
    (url = SearchDataUrl /\ upc # "new") =>
        /\ ref.gopher_selector = <<"hello">>
        /\ ref.gopher_search = <<"search", "%09", "/", "data">>
        /\ upc \in {"canonical", "reparsed"} => canon = SearchDataUrl

\* a field with its escapes decoded, as the claim reads it
PercentDecoded(s) ==
    [i \in 1..Len(s) |->
        CASE s[i] = "%09" -> TAB
          [] s[i] = "%0D" -> CR
          [] s[i] = "%0A" -> LF
          [] s[i] = "%20" -> SP
          [] s[i] = "%25" -> "%"
          [] OTHER -> s[i]]

\* C14: the gopher request is the decoded selector, TAB and the decoded
\* search string when there is a search string or a plus-string, TAB and
\* the decoded plus-string when there is one ("!" for the plus-string "?"),
\* then CRLF; the address keeps its plus-string.
C14_GopherRequestBytes ==
    upc = "requested" =>
        /\ req = PercentDecoded(ref.gopher_selector)
                   \o (IF ref.gopher_search # <<>> \/ ref.gopher_plus_string # <<>>
                       THEN <<TAB>> \o PercentDecoded(ref.gopher_search)
                       ELSE <<>>)
                   \o (IF ref.gopher_plus_string = <<>> THEN <<>>
                       ELSE IF ref.gopher_plus_string = <<"?">> THEN <<TAB, "!">>
                       ELSE <<TAB>> \o PercentDecoded(ref.gopher_plus_string))
                   \o <<CR, LF>>
        /\ ref = URLReference(url)

C14_Witness ==
    /\ upc = "requested"
    /\ url = AskUrl
    /\ ref.gopher_plus_string = <<"?">>
    /\ req = <<"hello", TAB, "search", TAB, "!", CR, LF>>

\* the first line of the stream, as readline returns it
FirstLine == ReadLine(wire)

\* a gopher+ fetch: the address carries a plus-string
PlusFetch == scheme \in {"gopher", "gophers"} /\ plus

\* the error header of the claim, "-2 TRY AGAIN LATER" and CRLF, the
\* message abbreviated to one character, and nothing after it
TryAgainLater == <<"-", "2", SP, "m", CR, LF>>

\* C15: a gopher+ fetch of a server that sends the line
\* "-2 TRY AGAIN LATER" and closes returns a response with status "2",
\* meta "TRY AGAIN LATER" and an empty body.
C15_ErrorLineParsed ==
    (PlusFetch /\ wire = TryAgainLater) =>
        /\ (pc = "failed" /\ raisedAt \in {"header", "header2"})
               => exc = "ProxyError"
        /\ response.exists =>
               /\ response.status = <<"2">>
               /\ response.meta = <<"m">>
               /\ WireBody = <<>>

\* the header line is "+" and a length field that int() accepts
PlusSuccessHeader ==
    /\ StartsWith(FirstLine, "+")
    /\ Tail(Strip(FirstLine)) \in {<<"5">>, <<"2">>, <<"-", "1">>, <<"-", "2">>}

\* C16: a gopher+ fetch whose header line begins with "+" returns a
\* response with status "" whose body is every byte after the header line
\* up to the close of the connection, whatever length the header declared.
C16_DeclaredLengthIgnored ==
    (PlusFetch /\ PlusSuccessHeader) =>
        /\ (pc = "failed" /\ raisedAt = "header") => conn = "lost"
        /\ pc # "header2"
        /\ response.exists =>
               /\ response.status = <<>>
               /\ response.bodyStart = Len(FirstLine)
               /\ result = "rendered" => body = Drop(wire, Len(FirstLine))
               /\ (pc = "stream_done" /\ iter.outer = "none")
                      => Flatten(out) = Drop(wire, Len(FirstLine))

C16_Witness ==
    /\ PlusFetch
    /\ FirstLine = <<"+", "2", CR, LF>>
    /\ pc = "stream_done"
    /\ iter.outer = "none"
    /\ Len(Flatten(out)) = MaxBodyLen

\* C17: when a plus-string was requested and the first header line begins
\* with neither "+" nor "-" (an empty line included), the fetch fails with
\* the error of a malformed response, there is no response object and no
\* second line is read.
C17_InvalidPlusHeader ==
    (PlusFetch /\ ~StartsWith(FirstLine, "+") /\ ~StartsWith(FirstLine, "-")) =>
        /\ ~response.exists
        /\ pc \notin {"header2", "fetched"}
        /\ pos <= Len(FirstLine)
        /\ (pc = "failed" /\ raisedAt = "header" /\ conn # "lost")
               => exc = "ValueError"

C17_Witness ==
    /\ PlusFetch
    /\ wire = <<>>
    /\ eof
    /\ pc = "failed"
    /\ exc = "ValueError"
    /\ raisedAt = "header"

\* neither certificate option of the request is set
NoCertOption == ~options.crt /\ ~options.raw_crt

\* what build_proxy_response answers for a status, by its first character;
\* a rendered body is a page or a stream
OutcomesFor(status) ==
    IF status = <<>> THEN {"unhandled"}
    ELSE CASE Head(status) = "1" -> {"input"}
           [] Head(status) = "2" -> {"rendered", "stream"}
           [] Head(status) = "3" -> {"redirect"}
           [] Head(status) \in {"4", "5"} -> {"failure"}
           [] Head(status) = "6" -> {"cert_required"}
           [] OTHER -> {"unhandled"}

\* C18 as stated: for a gemini response with no certificate option,
\* build_proxy_response answers with the one outcome of the first character
\* of the status, a redirect for every status "3x".
C18_StatusDispatch ==
    (scheme = "gemini" /\ NoCertOption /\ response.exists) =>
        /\ result # "" => result \in OutcomesFor(response.status)
        /\ ~(pc = "failed" /\ raisedAt = "fetched")

\* C18: for a gemini response with no certificate option,
\* build_proxy_response answers with the one outcome of the first character
\* of the status; for "3x" that is the redirect when the meta joined against
\* the request address parses, and ValueError when it does not.
C18_StatusDispatchParsedTarget ==
    (scheme = "gemini" /\ NoCertOption /\ response.exists) =>
        /\ result # "" => result \in OutcomesFor(response.status)
        /\ result = "redirect" => UrlPortValid(response.meta)
        /\ (pc = "failed" /\ raisedAt = "fetched") =>
               /\ StartsWith(response.status, "3")
               /\ ~UrlPortValid(response.meta)
               /\ exc = "ValueError"
               /\ result = ""

C18_Witness ==
    /\ scheme = "gemini"
    /\ NoCertOption
    /\ response.status = <<"3", "0">>
    /\ response.meta = <<"/">>
    /\ result = "redirect"

\* C19: a text:// response with a status of the table of the protocol,
\* "20", "30" or "40", is handled by its leading digit: the body is
\* rendered, the redirect followed, the failure page shown, and none of
\* the three gets the page of an unrecognized response.
C19_TextStatusByLeadingDigit ==
    (scheme = "text" /\ response.exists /\ result # ""
         /\ response.status \in {<<"2", "0">>, <<"3", "0">>, <<"4", "0">>}) =>
        result \in OutcomesFor(response.status)

\* the server declared a charset: the meta of a header-bearing response
\* carries a charset parameter
DeclaresCharset ==
    \E i \in 1..Len(response.meta) : response.meta[i] \in {"charset", "CHARSET"}

\* C20: every response object, whatever the protocol, the status and the
\* meta, has a MIME type and a charset after construction, and the charset
\* is "UTF-8" when the server declared none and the caller gave no override.
C20_MimeAndCharsetPopulated ==
    response.exists =>
        /\ response.mimetype # <<>>
        /\ response.charset # <<>>
        /\ ~DeclaresCharset => response.charset = <<"UTF-8">>

\* the port written in the address, 0 when none is written
WrittenPort(u) == IF UrlPortText(u) = <<>> THEN 0 ELSE PortInt[UrlPortText(u)[1]]

HasWrittenPort(u) == UrlPortText(u) # <<>>

\* C21: the connection target of an address is its host with the port
\* written in the address when there is one and the default port of the
\* scheme otherwise; asking for it raises when the host or the port cannot
\* be resolved, and a target that is returned has a host and a port
C21_ConnInfo ==
    upc = "conn_info" =>
        /\ err = "" =>
              /\ val = <<UrlHostname(url),
                         IF HasWrittenPort(url) THEN WrittenPort(url)
                         ELSE DefaultPort(UrlScheme(url))>>
              /\ val[1] # <<>>
              /\ val[2] # 0
        /\ err # "" <=>
              \/ UrlHostname(url) = <<>>
              \/ (~HasWrittenPort(url) /\ DefaultPort(UrlScheme(url)) = 0)

\* the ports the port test is said to accept
ListedPorts ==
    {70, 79, 300, 301, 1900, 3000, 3333} \cup (1960..2020) \cup (7000..7099)

\* C22: the port test accepts exactly the ports 70, 79, 300, 301, 1900, 3000,
\* 3333, 1960 to 2020 and 7000 to 7099: with a host that is not blocked, a
\* request is constructed when the port is one of these and the construction
\* raises for every other port
C22_PortCheck ==
    [][(/\ host = MozzUs
        /\ \/ NewRequest
           \/ BuildProxyRequest /\ scheme \in DispatchedSchemes)
        => (pc' = "ready" <=> port \in ListedPorts)]_vars

\* a host without one trailing dot, in lower case
NormalHost(h) ==
    LET d == IF h # <<>> /\ h[Len(h)] = "." THEN SubSeq(h, 1, Len(h) - 1) ELSE h
    IN  [i \in 1..Len(d) |-> Lower(d[i])]

\* the host is the domain or a subdomain of it
InDomain(h, d) ==
    \/ h = d
    \/ /\ Len(h) > Len(d) + 1
       /\ Drop(h, Len(h) - Len(d) - 1) = <<".">> \o d

Blocklisted(h) == \E d \in BLOCKED_HOSTS : InDomain(NormalHost(h), d)

\* C23: with an allowed port, constructing a request raises exactly when the
\* host, its case and one trailing dot ignored, is a blocklisted domain or a
\* subdomain of one; every other host passes, also one that ends with the
\* same letters or differs from the domain where the domain has a dot
C23_HostCheck ==
    [][(/\ port = DefaultPort("gemini")
        /\ \/ NewRequest
           \/ BuildProxyRequest /\ scheme \in DispatchedSchemes)
        => (pc' = "rejected" <=> Blocklisted(host))]_vars

\* index of the last "/" of a path, 0 when it has none
LastSlash(pth) ==
    IF \E i \in 1..Len(pth) : pth[i] = "/"
    THEN CHOOSE i \in 1..Len(pth) :
             pth[i] = "/" /\ \A j \in (i + 1)..Len(pth) : pth[j] # "/"
    ELSE 0

\* the directory of a path: the path up to its last slash
DirOf(pth) == IF LastSlash(pth) = 0 THEN <<"/">> ELSE Take(pth, LastSlash(pth))

\* the parent of a directory, the root being its own parent
ParentOf(dir) ==
    IF Len(dir) <= 1 THEN <<"/">> ELSE DirOf(Take(dir, Len(dir) - 1))

\* URLReference.path keeps no lone slash
NoLoneSlash(pth) == IF pth = <<"/">> THEN <<>> ELSE pth

HasDotSegment(pth) ==
    \E i \in 1..Len(SplitAll(pth, "/")) :
        SplitAll(pth, "/")[i] \in {<<".">>, <<".", ".">>}

IsAbsoluteRef(u) == UrlScheme(u) # "" /\ HasNetloc(u)

\* neither a scheme nor an authority
IsRelativeRef(u) == UrlScheme(u) = "" /\ ~HasNetloc(u) /\ u # <<>>

\* the path the joining rules give for a reference against a base path
ExpectedJoinPath(bpath, r) ==
    IF r = <<".">> THEN DirOf(bpath)
    ELSE IF r = <<".", ".">> THEN ParentOf(DirOf(bpath))
    ELSE IF Head(r) = "/" THEN r
    ELSE DirOf(bpath) \o r

\* C24: a reference joined against a base of a supported scheme keeps the
\* scheme, host and port of the base; a relative path replaces the last
\* segment of the base path, "." gives the base directory, ".." its parent,
\* a path that starts with "/" replaces the whole path; an absolute address
\* replaces the base
C24_Join ==
    upc = "joined" =>
        /\ IsAbsoluteRef(rel) => val = URLReference(rel)
        /\ IsRelativeRef(rel) =>
              /\ val.exists
              /\ val.scheme = ref.scheme
              /\ val.hostname = ref.hostname
              /\ val.port = ref.port
              /\ (rel \in {<<".">>, <<".", ".">>} \/ ~HasDotSegment(rel)) =>
                    val.path = NoLoneSlash(ExpectedJoinPath(UrlPath(url), rel))

\* a path or selector without its last segment: what precedes and includes
\* the last slash, once the trailing slashes are removed
WithoutLastSegment(pth) ==
    IF LastSlash(RStripSlash(pth)) = 0 THEN <<>>
    ELSE Take(RStripSlash(pth), LastSlash(RStripSlash(pth)))

\* C25: get_parent returns no parent exactly when the path without its
\* trailing slashes is empty; otherwise the parent has the scheme, host and
\* port of the address, no query and no fragment, and its path is the path
\* without its last segment, with a trailing slash; for gopher and gophers
\* the parent has item type "1" and the selector without its last segment,
\* also when the address carries a search string or a plus-string
C25_GetParent ==
    upc = "parent" =>
        /\ ~val.exists <=> RStripSlash(ref.path) = <<>>
        /\ val.exists =>
              /\ val.scheme = ref.scheme
              /\ val.hostname = ref.hostname
              /\ val.port = ref.port
              /\ val.query = <<>>
              /\ val.fragment = <<>>
              /\ ref.scheme \notin {"gopher", "gophers"} =>
                    val.path = NoLoneSlash(WithoutLastSegment(ref.path))
              /\ ref.scheme \in {"gopher", "gophers"} =>
                    /\ val.gopher_item_type = <<"1">>
                    /\ val.gopher_selector =
                           WithoutLastSegment(ref.gopher_selector)

\* the schemes the proxy supports
SupportedSchemes ==
    {"gemini", "spartan", "text", "finger", "nex", "gopher", "gophers"}

\* the path of an address as its scheme writes it
SchemePath(r) ==
    IF r.scheme = "finger" THEN get_finger_path(r)
    ELSE IF r.scheme \in {"gopher", "gophers"} THEN get_gopher_path(r)
    ELSE r.path \o (IF r.query # <<>> THEN <<"?">> \o r.query ELSE <<>>)

\* C26: for a scheme that is not supported get_proxy_url returns the
\* canonical address when an external link is allowed and raises ValueError
\* when an internal link is required; for a supported scheme it does not
\* raise and returns the route built from the scheme, the authority and the
\* path as the scheme writes it
C26_GetProxyUrl ==
    upc = "proxy_url" =>
        /\ (UrlScheme(url) \notin SupportedSchemes /\ val.external) =>
              /\ err = ""
              /\ val.link.endpoint = ""
              /\ val.link.url = get_url(ref)
        /\ (UrlScheme(url) \notin SupportedSchemes /\ ~val.external) =>
              err = "ValueError"
        /\ UrlScheme(url) \in SupportedSchemes =>
              /\ err = ""
              /\ val.link.endpoint \in {"proxy-path", "proxy-netloc"}
              /\ val.link.endpoint = "proxy-path" <=> SchemePath(ref) # <<>>
              /\ val.link.scheme = UrlScheme(url)
              /\ val.link.netloc = netloc(ref)
              /\ val.link.path = LStripSlash(SchemePath(ref))

\* tests/test_urls.py test_get_proxy_unknown_scheme
C26_Witness ==
    /\ upc = "proxy_url"
    /\ url = <<"telnet", ":", "/", "/", "mozz.us", ":", "23">>
    /\ val.external
    /\ val.link.url = url

\* C27: for an address of a supported scheme whose target passes the policy
\* (a host that is not blocked, the default port of the scheme)
\* build_proxy_request returns the request of that scheme, and for any other
\* scheme it raises
C27_BuildProxyRequestDispatch ==
    [][(/\ BuildProxyRequest
        /\ host = MozzUs
        /\ port = (IF scheme \in SupportedSchemes THEN DefaultPort(scheme)
                   ELSE DefaultPort("gemini")))
        => (pc' = "ready" <=> scheme \in SupportedSchemes)]_vars

\* C28: parsing an address of a supported scheme that has no authority
\* fails: no URLReference comes out of it, so no proxy link, connection
\* target or request is ever computed from it
C28_NoAuthorityFailsAtParse ==
    (UrlScheme(url) \in SupportedSchemes /\ UrlNetloc(url) = <<>>) =>
        /\ upc \in {"new", "invalid"}
        /\ ~ref.exists

\* C29: smart_decode returns the text decoded with the charset it returns,
\* which is the declared charset when one is given, otherwise UTF-8 when the
\* bytes are valid UTF-8, otherwise the detected charset when the confidence
\* of the detection is above 0.5, otherwise UTF-8; invalid sequences are
\* replaced
C29_SmartDecode ==
    upc = "decoded" =>
        /\ val[1] = Decode(data, val[2])
        /\ val[2] = (IF declared # "" THEN declared
                     ELSE IF ValidUtf8(data) THEN "UTF-8"
                     ELSE IF autodetect.confidence > 50 THEN autodetect.encoding
                     ELSE "UTF-8")

\* bytes that are not UTF-8, no declared charset, a detection of
\* confidence exactly 0.5: UTF-8 with a replacement character
C29_Witness ==
    /\ upc = "decoded"
    /\ declared = ""
    /\ data = <<"a", "FF">>
    /\ autodetect = [encoding |-> "ISO-8859-1", confidence |-> 50]
    /\ val = <<<<"a", "U+FFFD">>, "UTF-8">>

\* the request line without its last two bytes
RequestAddress == SubSeq(req, 1, Len(req) - 2)

\* C30: the request line of a gemini or text request is the request address
\* followed by CRLF; the address has the scheme and host of the address
\* requested, a path that is not empty ("/" for an empty path), the query,
\* no fragment, and the port exactly when it is not the default port of the
\* scheme
C30_GeminiRequestLine ==
    upc = "request_line" =>
        /\ Len(req) >= 2
        /\ Drop(req, Len(req) - 2) = <<CR, LF>>
        /\ \A i \in 1..Len(RequestAddress) :
               RequestAddress[i] \notin {CR, LF, "#"}
        /\ UrlScheme(RequestAddress) = UrlScheme(url)
        /\ UrlHostname(RequestAddress) = IdnaEncode(UrlHostname(url))
        /\ UrlPath(RequestAddress) =
               (IF UrlPath(url) = <<>> THEN <<"/">> ELSE UrlPath(url))
        /\ UrlQuery(RequestAddress) = UrlQuery(url)
        /\ UrlPortText(RequestAddress) = <<>>
               <=> ref.port = DefaultPort(ref.scheme)
        /\ UrlPortText(RequestAddress) # <<>>
               => UrlPortText(RequestAddress) = <<PortStr(ref.port)>>

\* an address with a port that is not the default, the path "/", a query
\* and a fragment
C30_Witness ==
    /\ upc = "request_line"
    /\ url = <<"gemini", ":", "/", "/", "mozz.us", ":", "7070", "/", "?", "h",
               "#", "h">>
    /\ req = <<"gemini", ":", "/", "/", "mozz.us", ":", "7070", "/", "?", "h",
               CR, LF>>

\* C31: get_info returns a new address that equals the receiver in every
\* field except the plus-string, which is "!"; neither get_info nor a later
\* assignment to the returned address changes a field of the receiver; for
\* a scheme other than gopher and gophers get_info returns nothing.
C31_GetInfoCopies ==
    /\ upc \in {"info", "info_changed"} => ref = URLReference(url)
    /\ upc = "info" =>
          IF ref.scheme \in {"gopher", "gophers"}
          THEN /\ ~val.alias
               /\ val.obj = [ref EXCEPT !.gopher_plus_string = <<"!">>]
          ELSE val = NoObject

\* the address returned for an address with the plus-string "?" was
\* assigned another plus-string
C31_Witness ==
    /\ upc = "info_changed"
    /\ url = AskUrl
    /\ ref.gopher_plus_string = <<"?">>
    /\ val.obj.gopher_plus_string = <<"+", "h">>

\* C32: in the favicon cache there is at most one in-flight fetch task per
\* favicon address: a check for an address whose task is still running
\* starts no new task and returns no value, and a check for a scheme other
\* than gemini or spartan never starts a task.
C32_OneTaskPerKey ==
    /\ \A k \in FaviconKeys : jobs[k].running <= 1
    /\ ret.busy => ~ret.started /\ ret.value = "None"
    /\ (ret.called /\ ret.key = <<>>) => ~ret.started

\* a check found the task of its address still running, after an earlier
\* entry of the address had expired
C32_Witness ==
    /\ ret.busy
    /\ ret.key \in FaviconKeys
    /\ db[ret.key].exists
    /\ tasks[ret.key]
    /\ jobs[ret.key].running = 1

\* C39: every finished update task leaves the cache settled: it is removed
\* from the in-flight map, and whether the fetch succeeded, failed with a
\* proxy error, was rejected by the access policy or raised any other
\* error, an entry for the favicon address is stored, so that later checks
\* within the expiration period start no new fetch.
C39_FinishedTaskSettles ==
    /\ \A k \in FaviconKeys :
          /\ (jobs[k].running = 0 /\ jobs[k].finished = 0) => ~tasks[k]
          /\ jobs[k].last # "" => db[k].exists
    /\ ret.started => ~ret.early

\* the text before the first white space of a stripped line, and the rest
\* without the white space around it
StatusPart(line) == Take(Strip(line), WordLen(Strip(line)))

MetaPart(line) == Strip(Drop(Strip(line), WordLen(Strip(line))))

\* C33: the header parser is total and its two implementations agree: for
\* every header line it returns a (status, meta) pair without raising,
\* status the text before the first white space run, meta the rest without
\* the white space around it, ("", "") for an empty or white-space-only
\* line; parse_response_header and the older parse_header return the same
\* pair.
C33_HeaderParserTotal ==
    upc = "header_parsed" =>
        /\ val.new.raised = ""
        /\ val.new.pair = <<StatusPart(rawHeader), MetaPart(rawHeader)>>
        /\ val.new = val.old

\* C34: two addresses that compare equal (the same get_url string) send the
\* same bytes; checked of an address and the address parsed from its
\* canonical string, which compare equal when that string is its own
\* canonical string: so "gopher://mozz.us/1/" and "gopher://mozz.us" would
\* send the same selector.
C34_EqualAddressesSameRequest ==
    (upc = "both_requested" /\ get_url(ref2) = get_url(ref)) =>
        val.first = val.second

C36_DefaultPortsAccepted ==
    [][(/\ host = MozzUs
        /\ scheme \in PROXY_SCHEMES
        /\ port = DefaultPort(scheme))
        => /\ NewRequest => pc' = "ready"
           /\ BuildProxyRequest => ValidateUrl(host, port) /\ Clean(host, port)
           /\ (BuildProxyRequest /\ scheme \in DispatchedSchemes)
                  => pc' = "ready"]_vars

\* the address get_parent was last called on
Climber == IF upc = "parent" THEN ref ELSE ref2

\* an address at its authority: it has one, and its path is empty or
\* nothing but slashes (the "root URL" of get_parent)
BareAuthority(r) ==
    /\ netloc(r) # <<>>
    /\ RStripSlash(r.path) = <<>>

\* C37: from any address of a supported scheme, get_parent applied again
\* and again ends: every parent has the scheme, host and port of the first
\* address and a shorter path than the address it is the parent of, and the
\* address that has no parent is the bare authority.
C37_GetParentTerminates ==
    (upc \in {"parent", "grandparent"} /\ ref.scheme \in PROXY_SCHEMES) =>
        /\ val.exists =>
              /\ val.scheme = ref.scheme
              /\ val.hostname = ref.hostname
              /\ val.port = ref.port
              /\ Len(RStripSlash(val.path)) < Len(RStripSlash(Climber.path))
        /\ ~val.exists => BareAuthority(Climber)

\* C38: a search typed into the input box on a gopher address is refused
\* when it holds a TAB; otherwise quote_gopher of it becomes the search
\* string and nothing else changes: parsing the canonical string of the
\* result gives the item type, selector and plus-string of the address
\* before, and a search string that percent-decodes to what was typed.
C38_SearchAttached ==
    /\ upc = "search_refused" => ~QueryAllowed(rel)
    /\ upc \in {"searched", "search_reparsed"} => QueryAllowed(rel)
    /\ upc = "search_reparsed" =>
          /\ ref2.exists
          /\ ref2.gopher_item_type = ref.gopher_item_type
          /\ ref2.gopher_selector = ref.gopher_selector
          /\ ref2.gopher_plus_string = ref.gopher_plus_string
          /\ PercentDecoded(ref2.gopher_search) = rel

\* a search with a space and one that spells an escaped TAB were attached
\* to an address that had a selector, a search string and a plus-string
C38_Witness ==
    /\ upc = "search_reparsed"
    /\ rel \in {<<"%", "09">>, <<SP>>}
    /\ ref.gopher_selector # <<>>
    /\ ref.gopher_search # <<>>
    /\ ref.gopher_plus_string # <<>>

\* the lines that are in the sections, in the order of the sections
RECURSIVE SectionLines(_)
SectionLines(ss) ==
    IF ss = <<>> THEN <<>> ELSE Head(ss).lines \o SectionLines(Tail(ss))

\* the first n lines of the text that are no preformat fence, in order
RECURSIVE NotFences(_)
NotFences(n) ==
    IF n = 0 THEN <<>>
    ELSE IF HasPrefix(RStrip(text[n]), <<FENCE>>) THEN NotFences(n - 1)
    ELSE Append(NotFences(n - 1), n)

\* a mode was switched on or off by the step
ModeSwitched ==
    \/ preformat_mode' # preformat_mode
    \/ list_mode' # list_mode
    \/ quote_mode' # quote_mode

\* C40: in the flowed gemtext converter list mode and quote mode are never
\* both on and neither is on in preformat mode; a step that switches a mode
\* leaves no line in the buffer that was there before it, and the buffer is
\* empty when get_body returns; the lines handled so far that are no fence
\* are, in order and each once, the lines of the sections followed by those
\* of the buffer.
C40_FlowedModes ==
    /\ [](fpc # "off" =>
            /\ ~(list_mode /\ quote_mode)
            /\ preformat_mode => (~list_mode /\ ~quote_mode)
            /\ fpc = "done" => (buffer = <<>> /\ lineno = Len(text))
            /\ SectionLines(sections) \o buffer = NotFences(lineno))
    /\ [][ModeSwitched =>
            \A i \in 1..Len(buffer') : buffer'[i] = lineno']_vars

\* a document of three lines was converted into a list, a quote and a
\* paragraph
C40_Witness ==
    /\ fpc = "done"
    /\ Len(sections) = 3
    /\ {sections[i].tag : i \in 1..3} = {"ul", "blockquote", "p"}

====
